---------------------------- MODULE Spec2Model ----------------------------
(***************************************************************************)
(* A model of the Spark.ai command pipeline: the intent parser             *)
(* (nlp/intent_parser.py), the command dispatcher (toc/dispatcher.py) and  *)
(* the controller that runs text and voice commands on worker threads      *)
(* (ui/controller.py).                                                     *)
(*                                                                         *)
(* Text is a sequence of one-character strings, so that lower(), strip(),  *)
(* the substring test and the regular expressions of the source are        *)
(* computed, not assumed.  Confidences are integers in units of 1/120:     *)
(* a keyword ratio k/2 or k/3 and the pattern score 0.9 are exact there,   *)
(* and so is the comparison with the 0.5 threshold.                        *)
(***************************************************************************)
EXTENDS Integers, Sequences, FiniteSets, TLC

(***************************************************************************)
(* Characters and strings                                                  *)
(***************************************************************************)
UpperChars ==
    <<"A","B","C","D","E","F","G","H","I","J","K","L","M","N","O","P","Q","R","S","T",
    "U","V","W","X","Y","Z">>

\* str.isspace for the characters of the model's texts
IsSpace(c) == c \in {" ", "\t", "\n"}

\* the regular expression class \d
IsDigit(c) == c \in {"0","1","2","3","4","5","6","7","8","9"}

LowerChar(c) ==
    IF \E i \in 1..Len(UpperChars) : UpperChars[i] = c
    THEN <<"a","b","c","d","e","f","g","h","i","j","k","l","m","n","o","p","q","r","s","t",
           "u","v","w","x","y","z">>[CHOOSE i \in 1..Len(UpperChars) : UpperChars[i] = c]
    ELSE c

\* str.lower()
lower(s) == [i \in 1..Len(s) |-> LowerChar(s[i])]

\* str.strip(): without the leading and trailing white space
strip(s) ==
    LET keep == {i \in 1..Len(s) : ~IsSpace(s[i])}
    IN  IF keep = {} THEN << >>
        ELSE LET lo == CHOOSE i \in keep : \A j \in keep : i <= j
                 hi == CHOOSE i \in keep : \A j \in keep : j <= i
             IN  SubSeq(s, lo, hi)

\* w occurs in s at index i (1-based)
MatchAt(w, s, i) ==
    /\ i >= 1
    /\ i + Len(w) - 1 <= Len(s)
    /\ \A k \in 1..Len(w) : s[i + k - 1] = w[k]

\* Python's `w in s`
Contains(w, s) == \E i \in 1..(Len(s) - Len(w) + 1) : MatchAt(w, s, i)

\* the index after the longest run of white space that starts at i (\s*)
SkipSpaces(s, i) ==
    LET stops == {j \in i..(Len(s) + 1) : j = Len(s) + 1 \/ ~IsSpace(s[j])}
    IN  CHOOSE j \in stops : \A k \in stops : j <= k

\* the index after the longest run of digits that starts at i (\d*)
SkipDigits(s, i) ==
    LET stops == {j \in i..(Len(s) + 1) : j = Len(s) + 1 \/ ~IsDigit(s[j])}
    IN  CHOOSE j \in stops : \A k \in stops : j <= k

\* the index after the longest run of characters other than a line break (.*)
SkipDots_all(s, i) == Len(s) + 1

SkipDots(s, i) ==
    LET stops == {j \in i..(Len(s) + 1) : j = Len(s) + 1 \/ s[j] = "\n"}
    IN  CHOOSE j \in stops : \A k \in stops : j <= k

\* the least element of a non-empty set of integers
Least(S) == CHOOSE i \in S : \A j \in S : i <= j

\* the words of the keyword lists and of the regular expressions of the table
W ==
    [open |-> <<"o","p","e","n">>,
     launch |-> <<"l","a","u","n","c","h">>,
     start |-> <<"s","t","a","r","t">>,
     close |-> <<"c","l","o","s","e">>,
     quit |-> <<"q","u","i","t">>,
     exit |-> <<"e","x","i","t">>,
     search |-> <<"s","e","a","r","c","h">>,
     find |-> <<"f","i","n","d">>,
     google |-> <<"g","o","o","g","l","e">>,
     for |-> <<"f","o","r">>,
     play |-> <<"p","l","a","y">>,
     music |-> <<"m","u","s","i","c">>,
     timer |-> <<"t","i","m","e","r">>,
     set_timer |-> <<"s","e","t"," ","t","i","m","e","r">>,
     minute |-> <<"m","i","n","u","t","e">>,
     second |-> <<"s","e","c","o","n","d">>,
     weather |-> <<"w","e","a","t","h","e","r">>,
     temperature |-> <<"t","e","m","p","e","r","a","t","u","r","e">>,
     in |-> <<"i","n">>,
     time |-> <<"t","i","m","e">>,
     what_time |-> <<"w","h","a","t"," ","t","i","m","e">>,
     whats |-> <<"w","h","a","t","'","s">>,
     what_is |-> <<"w","h","a","t"," ","i","s">>,
     the |-> <<"t","h","e">>,
     volume |-> <<"v","o","l","u","m","e">>,
     up |-> <<"u","p">>,
     down |-> <<"d","o","w","n">>,
     volume_up |-> <<"v","o","l","u","m","e"," ","u","p">>,
     louder |-> <<"l","o","u","d","e","r">>,
     volume_down |-> <<"v","o","l","u","m","e"," ","d","o","w","n">>,
     quieter |-> <<"q","u","i","e","t","e","r">>,
     shutdown |-> <<"s","h","u","t","d","o","w","n">>,
     shut_down |-> <<"s","h","u","t"," ","d","o","w","n">>,
     shut |-> <<"s","h","u","t">>,
     screenshot |-> <<"s","c","r","e","e","n","s","h","o","t">>,
     screen_capture |-> <<"s","c","r","e","e","n"," ","c","a","p","t","u","r","e">>,
     take |-> <<"t","a","k","e">>,
     capture |-> <<"c","a","p","t","u","r","e">>,
     a |-> <<"a">>,
     s |-> <<"s">>]

(***************************************************************************)
(* nlp/intent_parser.py                                                    *)
(***************************************************************************)
\* class IntentType: the kinds an Intent can have
IntentType ==
    {"open_app", "close_app", "search", "play_music", "set_timer", "get_weather",
     "get_time", "volume_up", "volume_down", "shutdown", "take_screenshot", "unknown"}

\* class Entity
Entity(t, v) == [type |-> t, value |-> v, confidence |-> 108]

\* Intent.get_entity: the first entity of the type, or None
NoEntity == [type |-> "None", value |-> << >>, confidence |-> 0]

get_entity(intent, entity_type) ==
    LET hits == {i \in 1..Len(intent.entities) : intent.entities[i].type = entity_type}
    IN  IF hits = {} THEN NoEntity ELSE intent.entities[Least(hits)]

\* a capture group of a match; `present` is FALSE for a group that took no part
\* in it (None)
Group(t) == [present |-> TRUE, text |-> t]

NoMatch == [matched |-> FALSE, groups |-> << >>]

\* (?:a|b|c) at index i: the index after the first alternative that matches, 0 when
\* none does.  No two alternatives of one pattern of the table match at one index.
AltEnd(alts, s, i) ==
    LET ok == {a \in 1..Len(alts) : MatchAt(alts[a], s, i)}
    IN  IF ok = {} THEN 0 ELSE i + Len(alts[Least(ok)])

\* s has white space at j (the first character of a \s+)
SpaceAt(s, j) == j >= 1 /\ j <= Len(s) /\ IsSpace(s[j])

\* (?:a|b|c)\s+(.+) searched in s, as re.search does: the leftmost match.  parse
\* strips the text first, so a run of white space never reaches the end of s.
VerbArgMatch(alts, s) ==
    LET starts == {i \in 1..Len(s) :
                      LET j == AltEnd(alts, s, i)
                      IN  j # 0 /\ SpaceAt(s, j) /\ SkipSpaces(s, j) <= Len(s)}
    IN  IF starts = {} THEN NoMatch
        ELSE LET k == SkipSpaces(s, AltEnd(alts, s, Least(starts)))
             IN  [matched |-> TRUE,
                  groups |-> <<Group(SubSeq(s, k, SkipDots(s, k) - 1))>>]

\* (?:search|find|google)\s+(?:for\s+)?(.+)
SearchMatch(s) ==
    LET alts == <<W.search, W.find, W.google>>
        starts == {i \in 1..Len(s) :
                      LET j == AltEnd(alts, s, i)
                      IN  j # 0 /\ SpaceAt(s, j) /\ SkipSpaces(s, j) <= Len(s)}
    IN  IF starts = {} THEN NoMatch
        ELSE LET k == SkipSpaces(s, AltEnd(alts, s, Least(starts)))
                 viaFor == /\ MatchAt(W.for, s, k)
                           /\ SpaceAt(s, k + 3)
                           /\ SkipSpaces(s, k + 3) <= Len(s)
                 g == IF viaFor THEN SkipSpaces(s, k + 3) ELSE k
             IN  [matched |-> TRUE,
                  groups |-> <<Group(SubSeq(s, g, SkipDots(s, g) - 1))>>]

\* The places of timer\s+for\s+(\d+)\s*(minutes?|seconds?) from a start index i:
\* d..e-1 are the digits, u is where the unit starts, 0 when there is no match at i.
TimerUnitAt(s, i) ==
    IF ~(MatchAt(W.timer, s, i) /\ SpaceAt(s, i + 5)) THEN 0
    ELSE LET k == SkipSpaces(s, i + 5)
         IN  IF ~(MatchAt(W.for, s, k) /\ SpaceAt(s, k + 3)) THEN 0
             ELSE LET d == SkipSpaces(s, k + 3)
                      e == SkipDigits(s, d)
                      u == SkipSpaces(s, e)
                  IN  IF e > d /\ (MatchAt(W.minute, s, u) \/ MatchAt(W.second, s, u))
                      THEN u ELSE 0

TimerMatch(s) ==
    LET starts == {i \in 1..Len(s) : TimerUnitAt(s, i) # 0}
    IN  IF starts = {} THEN NoMatch
        ELSE LET i == Least(starts)
                 d == SkipSpaces(s, SkipSpaces(s, i + 5) + 3)
                 e == SkipDigits(s, d)
                 u == TimerUnitAt(s, i)
                 \* minutes? : the s is taken when it is there
                 v == IF MatchAt(W.s, s, u + 6) THEN u + 6 ELSE u + 5
             IN  [matched |-> TRUE,
                  groups |-> <<Group(SubSeq(s, d, e - 1)), Group(SubSeq(s, u, v))>>]

\* weather(?:\s+in\s+(.+))? : the leftmost "weather" matches, with or without the group
WeatherMatch(s) ==
    LET starts == {i \in 1..Len(s) : MatchAt(W.weather, s, i)}
    IN  IF starts = {} THEN NoMatch
        ELSE LET j == Least(starts) + 7
                 k == SkipSpaces(s, j)
                 n == SkipSpaces(s, k + 2)
                 withIn == /\ SpaceAt(s, j)
                           /\ MatchAt(W.in, s, k)
                           /\ SpaceAt(s, k + 2)
                           /\ n <= Len(s)
             IN  [matched |-> TRUE,
                  groups |-> <<IF withIn THEN Group(SubSeq(s, n, SkipDots(s, n) - 1))
                               ELSE [present |-> FALSE, text |-> << >>]>>]

\* (?:what's|what is)\s+the\s+time
TimeMatch(s) ==
    LET ok == \E i \in 1..Len(s) :
                 LET j == AltEnd(<<W.whats, W.what_is>>, s, i)
                     k == SkipSpaces(s, j)
                 IN  /\ j # 0 /\ SpaceAt(s, j)
                     /\ MatchAt(W.the, s, k) /\ SpaceAt(s, k + 3)
                     /\ MatchAt(W.time, s, SkipSpaces(s, k + 3))
    IN  [matched |-> ok, groups |-> << >>]

\* volume\s+up and volume\s+down
VolumeMatch(s, dir) ==
    LET ok == \E i \in 1..Len(s) :
                 /\ MatchAt(W.volume, s, i) /\ SpaceAt(s, i + 6)
                 /\ MatchAt(dir, s, SkipSpaces(s, i + 6))
    IN  [matched |-> ok, groups |-> << >>]

\* shut\s*down
ShutdownMatch(s) ==
    LET ok == \E i \in 1..Len(s) :
                 MatchAt(W.shut, s, i) /\ MatchAt(W.down, s, SkipSpaces(s, i + 4))
    IN  [matched |-> ok, groups |-> << >>]

\* (?:take|capture)\s+(?:a\s+)?screenshot
ScreenshotMatch(s) ==
    LET ok == \E i \in 1..Len(s) :
                 LET j == AltEnd(<<W.take, W.capture>>, s, i)
                     k == SkipSpaces(s, j)
                 IN  /\ j # 0 /\ SpaceAt(s, j)
                     /\ \/ MatchAt(W.screenshot, s, k)
                        \/ /\ MatchAt(W.a, s, k) /\ SpaceAt(s, k + 1)
                           /\ MatchAt(W.screenshot, s, SkipSpaces(s, k + 1))
    IN  [matched |-> ok, groups |-> << >>]

\* _init_patterns: the table, in declaration order (a dict keeps insertion order)
patterns ==
    << [name |-> "open_app", keywords |-> <<W.open, W.launch, W.start>>,
        entity_types |-> <<"app_name">>],
       [name |-> "close_app", keywords |-> <<W.close, W.quit, W.exit>>,
        entity_types |-> <<"app_name">>],
       [name |-> "search", keywords |-> <<W.search, W.find, W.google>>,
        entity_types |-> <<"query">>],
       [name |-> "play_music", keywords |-> <<W.play, W.music>>,
        entity_types |-> <<"song_name">>],
       [name |-> "set_timer", keywords |-> <<W.timer, W.set_timer>>,
        entity_types |-> <<"duration", "unit">>],
       [name |-> "get_weather", keywords |-> <<W.weather, W.temperature>>,
        entity_types |-> <<"location">>],
       [name |-> "get_time", keywords |-> <<W.time, W.what_time>>,
        entity_types |-> << >>],
       [name |-> "volume_up", keywords |-> <<W.volume_up, W.louder>>,
        entity_types |-> << >>],
       [name |-> "volume_down", keywords |-> <<W.volume_down, W.quieter>>,
        entity_types |-> << >>],
       [name |-> "shutdown", keywords |-> <<W.shutdown, W.shut_down>>,
        entity_types |-> << >>],
       [name |-> "take_screenshot", keywords |-> <<W.screenshot, W.screen_capture>>,
        entity_types |-> << >>] >>

\* the "patterns" entry of each row of the table: one regular expression each
PatternMatch(name, s) ==
    CASE name = "open_app" -> VerbArgMatch(<<W.open, W.launch, W.start>>, s)
      [] name = "close_app" -> VerbArgMatch(<<W.close, W.quit, W.exit>>, s)
      [] name = "search" -> SearchMatch(s)
      [] name = "play_music" -> VerbArgMatch(<<W.play>>, s)
      [] name = "set_timer" -> TimerMatch(s)
      [] name = "get_weather" -> WeatherMatch(s)
      [] name = "get_time" -> TimeMatch(s)
      [] name = "volume_up" -> VolumeMatch(s, W.up)
      [] name = "volume_down" -> VolumeMatch(s, W.down)
      [] name = "shutdown" -> ShutdownMatch(s)
      [] name = "take_screenshot" -> ScreenshotMatch(s)

\* _check_keywords: min(1.0, matches / max(1, len(keywords))), in 1/120
check_keywords(text, keywords) ==
    LET matches == Cardinality({i \in 1..Len(keywords) : Contains(lower(keywords[i]), text)})
        n == IF Len(keywords) > 1 THEN Len(keywords) ELSE 1
        ratio == (matches * 120) \div n
    IN  IF ratio > 120 THEN 120 ELSE ratio

\* the loop over match.groups() of _extract_entities, from group i on
RECURSIVE GroupEntities(_, _, _)
GroupEntities(groups, entity_types, i) ==
    IF i > Len(groups) THEN << >>
    ELSE LET rest == GroupEntities(groups, entity_types, i + 1)
         IN  IF groups[i].present /\ groups[i].text # << >> /\ i <= Len(entity_types)
             THEN <<Entity(entity_types[i], strip(groups[i].text))>> \o rest
             ELSE rest

\* _extract_entities: the entities and the pattern score (0.9 or 0.0, in 1/120)
extract_entities(text, name, entity_types) ==
    LET m == PatternMatch(name, text)
    IN  IF m.matched
        THEN [entities |-> GroupEntities(m.groups, entity_types, 1), confidence |-> 108]
        ELSE [entities |-> << >>, confidence |-> 0]

\* one turn of the loop of parse: what the row leaves in best_intent,
\* best_confidence and best_entities
ScoreRow_stale(row, keyword_match, ext, best) ==
    LET total_confidence == (keyword_match + ext.confidence) \div 2
    IN  IF keyword_match # 0 /\ total_confidence > best.confidence
        THEN [intent |-> row.name, confidence |-> total_confidence,
              entities |-> IF ext.entities # << >> THEN ext.entities
                           ELSE best.entities]
        ELSE best

\* Fault variant of ScoreRow: a row without a keyword match is scored too
ScoreRow_unguarded(row, keyword_match, ext, best) ==
    LET total_confidence == (keyword_match + ext.confidence) \div 2
    IN  IF total_confidence > best.confidence
        THEN [intent |-> row.name, confidence |-> total_confidence,
              entities |-> ext.entities]
        ELSE best

ScoreRow(row, keyword_match, ext, best) ==
    LET total_confidence == (keyword_match + ext.confidence) \div 2
    IN  IF keyword_match # 0 /\ total_confidence > best.confidence
        THEN [intent |-> row.name, confidence |-> total_confidence,
              entities |-> ext.entities]
        ELSE best

\* the loop of parse over the table from row i on; best is what rows 1..i-1 left
RECURSIVE ParseScan(_, _, _)
ParseScan(text, i, best) ==
    IF i > Len(patterns) THEN best
    ELSE ParseScan(text, i + 1,
                   ScoreRow(patterns[i],
                            check_keywords(text, patterns[i].keywords),
                            extract_entities(text, patterns[i].name,
                                             patterns[i].entity_types),
                            best))

\* the Intent parse returns once the loop has ended
MakeIntent(text, normalized_text, best) ==
    [type |-> IF best.intent # "None" THEN best.intent ELSE "unknown",
     confidence |-> IF best.intent # "None" THEN best.confidence ELSE 0,
     text |-> normalized_text, entities |-> best.entities, raw_text |-> text]

\* IntentParser.parse
parse(text) ==
    IF text = << >> \/ strip(text) = << >>
    THEN [type |-> "unknown", confidence |-> 0, text |-> << >>, entities |-> << >>,
          raw_text |-> text]
    ELSE MakeIntent(text, strip(lower(text)),
                    ParseScan(strip(lower(text)), 1,
                              [intent |-> "None", confidence |-> 0,
                               entities |-> << >>]))
\* the texts of the dispatcher: messages, names and the words of its tests
M ==
    [didnt_understand |-> <<"I"," ","d","i","d","n","'","t"," ","u","n","d","e","r","s",
          "t","a","n","d"," ","t","h","a","t"," ","c","o","m","m","a","n","d">>,
     action_for |-> <<"A","c","t","i","o","n"," ","f","o","r"," ","'">>,
     not_implemented |-> <<"'"," ","n","o","t"," ","y","e","t"," ","i","m","p","l","e",
          "m","e","n","t","e","d">>,
     error_executing |-> <<"E","r","r","o","r"," ","e","x","e","c","u","t","i","n","g",
          " ","c","o","m","m","a","n","d",":"," ">>,
     no_app_name |-> <<"N","o"," ","a","p","p"," ","n","a","m","e"," ","s","p","e","c",
          "i","f","i","e","d">>,
     opened |-> <<"O","p","e","n","e","d"," ">>,
     failed_to_open |-> <<"F","a","i","l","e","d"," ","t","o"," ","o","p","e","n"," ">>,
     closed |-> <<"C","l","o","s","e","d"," ">>,
     failed_to_close |-> <<"F","a","i","l","e","d"," ","t","o"," ","c","l","o","s","e",
          " ">>,
     no_search_query |-> <<"N","o"," ","s","e","a","r","c","h"," ","q","u","e","r","y",
          " ","s","p","e","c","i","f","i","e","d">>,
     searched_for |-> <<"S","e","a","r","c","h","e","d"," ","f","o","r",":"," ">>,
     failed_search |-> <<"F","a","i","l","e","d"," ","t","o"," ","o","p","e","n"," ",
          "s","e","a","r","c","h">>,
     spotify |-> <<"s","p","o","t","i","f","y">>,
     opening_spotify_to_play |-> <<"O","p","e","n","i","n","g"," ","S","p","o","t","i",
          "f","y"," ","t","o"," ","p","l","a","y"," ">>,
     opening_spotify |-> <<"O","p","e","n","i","n","g"," ","S","p","o","t","i","f","y">>,
     failed_music |-> <<"F","a","i","l","e","d"," ","t","o"," ","o","p","e","n"," ","m",
          "u","s","i","c"," ","p","l","a","y","e","r">>,
     timer_not_specified |-> <<"T","i","m","e","r"," ","d","u","r","a","t","i","o","n",
          " ","n","o","t"," ","s","p","e","c","i","f","i","e","d">>,
     unknown_unit |-> <<"U","n","k","n","o","w","n"," ","t","i","m","e"," ","u","n","i",
          "t",":"," ">>,
     minutes |-> <<"m","i","n","u","t","e","s">>,
     seconds |-> <<"s","e","c","o","n","d","s">>,
     hours |-> <<"h","o","u","r","s">>,
     timer_prefix |-> <<"T","i","m","e","r","_">>,
     underscore |-> <<"_">>,
     space |-> <<" ">>,
     timer_set_for |-> <<"T","i","m","e","r"," ","s","e","t"," ","f","o","r"," ">>,
     invalid_duration |-> <<"I","n","v","a","l","i","d"," ","t","i","m","e","r"," ","d",
          "u","r","a","t","i","o","n">>,
     failed_timer |-> <<"F","a","i","l","e","d"," ","t","o"," ","s","e","t"," ","t","i",
          "m","e","r",":"," ">>,
     london |-> <<"L","o","n","d","o","n">>,
     weather_in |-> <<"w","e","a","t","h","e","r"," ","i","n"," ">>,
     opening_weather |-> <<"O","p","e","n","i","n","g"," ","w","e","a","t","h","e","r",
          " ","s","e","a","r","c","h"," ","f","o","r"," ">>,
     failed_weather |-> <<"F","a","i","l","e","d"," ","t","o"," ","g","e","t"," ","w",
          "e","a","t","h","e","r">>,
     the_weather_in |-> <<"T","h","e"," ","w","e","a","t","h","e","r"," ","i","n"," ">>,
     is |-> <<" ","i","s"," ">>,
     couldnt_fetch |-> <<"S","o","r","r","y",","," ","I"," ","c","o","u","l","d","n",
          "'","t"," ","f","e","t","c","h"," ","t","h","e"," ","w","e","a","t","h","e",
          "r"," ","f","o","r"," ">>,
     the_time_is |-> <<"T","h","e"," ","t","i","m","e"," ","i","s"," ">>,
     volume_increased |-> <<"V","o","l","u","m","e"," ","i","n","c","r","e","a","s","e",
          "d">>,
     failed_volume_up |-> <<"F","a","i","l","e","d"," ","t","o"," ","i","n","c","r","e",
          "a","s","e"," ","v","o","l","u","m","e">>,
     volume_decreased |-> <<"V","o","l","u","m","e"," ","d","e","c","r","e","a","s","e",
          "d">>,
     failed_volume_down |-> <<"F","a","i","l","e","d"," ","t","o"," ","d","e","c","r",
          "e","a","s","e"," ","v","o","l","u","m","e">>,
     audio_muted |-> <<"A","u","d","i","o"," ","m","u","t","e","d">>,
     failed_mute |-> <<"F","a","i","l","e","d"," ","t","o"," ","m","u","t","e"," ","a",
          "u","d","i","o">>,
     audio_unmuted |-> <<"A","u","d","i","o"," ","u","n","m","u","t","e","d">>,
     failed_unmute |-> <<"F","a","i","l","e","d"," ","t","o"," ","u","n","m","u","t",
          "e"," ","a","u","d","i","o">>,
     screen_locked |-> <<"S","c","r","e","e","n"," ","l","o","c","k","e","d">>,
     failed_lock |-> <<"F","a","i","l","e","d"," ","t","o"," ","l","o","c","k"," ","s",
          "c","r","e","e","n">>,
     screenshot_saved |-> <<"S","c","r","e","e","n","s","h","o","t"," ","s","a","v","e",
          "d"," ","t","o"," ">>,
     failed_screenshot |-> <<"F","a","i","l","e","d"," ","t","o"," ","t","a","k","e",
          " ","s","c","r","e","e","n","s","h","o","t">>,
     media_playing |-> <<"M","e","d","i","a"," ","p","l","a","y","i","n","g">>,
     failed_play_media |-> <<"F","a","i","l","e","d"," ","t","o"," ","p","l","a","y",
          " ","m","e","d","i","a">>,
     media_paused |-> <<"M","e","d","i","a"," ","p","a","u","s","e","d">>,
     failed_pause_media |-> <<"F","a","i","l","e","d"," ","t","o"," ","p","a","u","s",
          "e"," ","m","e","d","i","a">>,
     next_track |-> <<"S","k","i","p","p","e","d"," ","t","o"," ","n","e","x","t"," ",
          "t","r","a","c","k">>,
     failed_next_track |-> <<"F","a","i","l","e","d"," ","t","o"," ","s","k","i","p",
          " ","t","r","a","c","k">>,
     previous_track |-> <<"W","e","n","t"," ","t","o"," ","p","r","e","v","i","o","u",
          "s"," ","t","r","a","c","k">>,
     failed_previous_track |-> <<"F","a","i","l","e","d"," ","t","o"," ","g","o"," ",
          "t","o"," ","p","r","e","v","i","o","u","s"," ","t","r","a","c","k">>,
     shutdown_confirm |-> <<"S","h","u","t","d","o","w","n"," ","r","e","q","u","i","r",
          "e","s"," ","e","x","p","l","i","c","i","t"," ","c","o","n","f","i","r","m",
          "a","t","i","o","n"," ","f","o","r"," ","s","a","f","e","t","y">>,
     minute |-> <<"m","i","n","u","t","e">>,
     second |-> <<"s","e","c","o","n","d">>,
     hour |-> <<"h","o","u","r">>]

\* the texts of the exceptions: str(e)
E ==
    [calculate |-> <<"C","A","L","C","U","L","A","T","E">>,
     no_attribute |-> <<"t","y","p","e"," ","o","b","j","e","c","t"," ","'","I","n","t",
          "e","n","t","T","y","p","e","'"," ","h","a","s"," ","n","o"," ","a","t","t",
          "r","i","b","u","t","e"," ","'","C","A","L","C","U","L","A","T","E","'">>,
     provider |-> <<"p","r","o","v","i","d","e","r"," ","f","a","i","l","e","d">>,
     timer |-> <<"c","a","n","n","o","t"," ","s","t","a","r","t"," ","t","i","m","e","r">>]

\* what the collaborators of the dispatcher give back: the clock, the weather
\* report, the path of the screenshot
X ==
    [clock |-> <<"0","4",":","1","5"," ","P","M">>,
     report |-> <<"C","l","e","a","r"," ","s","k","y",","," ","2","0",".","0"," ","C",
          " ","(","f","e","e","l","s"," ","l","i","k","e"," ","1","9",".","0"," ","C",
          ")",".">>,
     filepath |-> <<"s","c","r","e","e","n","s","h","o","t",".","p","n","g">>]

\* values of the entities of an intent
V ==
    [chrome |-> <<"c","h","r","o","m","e">>,
     python |-> <<"p","y","t","h","o","n">>,
     jazz |-> <<"j","a","z","z">>,
     paris |-> <<"p","a","r","i","s">>,
     five |-> <<"5">>,
     one |-> <<"1">>,
     abc |-> <<"a","b","c">>,
     Minutes |-> <<"M","i","n","u","t","e","s">>,
     second |-> <<"s","e","c","o","n","d">>,
     hours |-> <<"h","o","u","r","s">>,
     days |-> <<"d","a","y","s">>]

(***************************************************************************)
(* toc/dispatcher.py                                                       *)
(*                                                                         *)
(* The collaborators' outcomes are inputs of a dispatch, the record env:   *)
(*   provider  what the one ActionProvider method called returns: "true",  *)
(*             "false", or "raise" when it raises                          *)
(*   weather   "nokey" when OPENWEATHER_API_KEY is not set, else what the  *)
(*             HTTP request gives: "ok", or "httperr" for every failure    *)
(*             inside the try (the request, the status, the reply's data)  *)
(*   python    which text the interpreter gives an AttributeError of an    *)
(*             Enum class: the bare name ("py311", up to Python 3.11) or   *)
(*             the type-object sentence ("py312", from 3.12 on)            *)
(* A handler gives back what it returned or raised and the ActionProvider  *)
(* calls it made, in order.                                                *)
(***************************************************************************)
NoResult == [success |-> FALSE, message |-> << >>, intent |-> "None"]

Returned(res, calls) == [raised |-> FALSE, exc |-> << >>, result |-> res, calls |-> calls]

Raised(e, calls) == [raised |-> TRUE, exc |-> e, result |-> NoResult, calls |-> calls]

Call(target, method, arg) == [target |-> target, method |-> method, arg |-> arg]

\* Fault variant of ProviderBool: a call that returns False is made a second time
ProviderBool_retry(env, call, onTrue, onFalse) ==
    IF env.provider = "raise" THEN Raised(E.provider, <<call>>)
    ELSE IF env.provider = "true" THEN Returned(onTrue, <<call>>)
    ELSE Returned(onFalse, <<call, call>>)

\* a call of an ActionProvider method that returns a bool: its return value, or its
\* exception, with the call recorded
ProviderBool(env, call, onTrue, onFalse) ==
    IF env.provider = "raise" THEN Raised(E.provider, <<call>>)
    ELSE Returned(IF env.provider = "true" THEN onTrue ELSE onFalse, <<call>>)

\* Fault variant of handle_open_app: the app_name entity is used without the test
\* for None
handle_open_app_unchecked(intent, env) ==
    LET app_name == get_entity(intent, "app_name").value
    IN  ProviderBool(env, Call("app_controller", "open_app", app_name),
            [success |-> TRUE, message |-> M.opened \o app_name,
             intent |-> intent.type, app_name |-> app_name],
            [success |-> FALSE, message |-> M.failed_to_open \o app_name,
             intent |-> intent.type, app_name |-> app_name])

handle_open_app(intent, env) ==
    LET app_entity == get_entity(intent, "app_name")
        app_name == app_entity.value
    IN  IF app_entity = NoEntity
        THEN Returned([success |-> FALSE, message |-> M.no_app_name,
                       intent |-> intent.type], << >>)
        ELSE ProviderBool(env, Call("app_controller", "open_app", app_name),
                 [success |-> TRUE, message |-> M.opened \o app_name,
                  intent |-> intent.type, app_name |-> app_name],
                 [success |-> FALSE, message |-> M.failed_to_open \o app_name,
                  intent |-> intent.type, app_name |-> app_name])

handle_close_app(intent, env) ==
    LET app_entity == get_entity(intent, "app_name")
        app_name == app_entity.value
    IN  IF app_entity = NoEntity
        THEN Returned([success |-> FALSE, message |-> M.no_app_name,
                       intent |-> intent.type], << >>)
        ELSE ProviderBool(env, Call("app_controller", "close_app", app_name),
                 [success |-> TRUE, message |-> M.closed \o app_name,
                  intent |-> intent.type, app_name |-> app_name],
                 [success |-> FALSE, message |-> M.failed_to_close \o app_name,
                  intent |-> intent.type, app_name |-> app_name])

handle_search(intent, env) ==
    LET query_entity == get_entity(intent, "query")
        query == query_entity.value
    IN  IF query_entity = NoEntity
        THEN Returned([success |-> FALSE, message |-> M.no_search_query,
                       intent |-> intent.type], << >>)
        ELSE ProviderBool(env, Call("app_controller", "search_web", query),
                 [success |-> TRUE, message |-> M.searched_for \o query,
                  intent |-> intent.type, query |-> query],
                 [success |-> FALSE, message |-> M.failed_search,
                  intent |-> intent.type, query |-> query])

\* both branches open Spotify: the song only changes the message
handle_play_music(intent, env) ==
    LET song_entity == get_entity(intent, "song_name")
        call == Call("app_controller", "open_app", M.spotify)
    IN  IF song_entity # NoEntity
        THEN ProviderBool(env, call,
                 [success |-> TRUE, message |-> M.opening_spotify_to_play \o song_entity.value,
                  intent |-> intent.type],
                 [success |-> FALSE, message |-> M.failed_music, intent |-> intent.type])
        ELSE ProviderBool(env, call,
                 [success |-> TRUE, message |-> M.opening_spotify, intent |-> intent.type],
                 [success |-> FALSE, message |-> M.failed_music, intent |-> intent.type])

\* int(text) succeeds on an optional run of white space around decimal digits (signs
\* and digit separators are not among the texts of the model)
IsIntText(v) == strip(v) # << >> /\ \A i \in 1..Len(strip(v)) : IsDigit(strip(v)[i])

\* int(text) of a run of digits
RECURSIVE DigitsToInt(_)
DigitsToInt(ds) ==
    IF ds = << >> THEN 0
    ELSE LET c == ds[Len(ds)]
         IN  10 * DigitsToInt(SubSeq(ds, 1, Len(ds) - 1))
             + (CASE c = "0" -> 0 [] c = "1" -> 1 [] c = "2" -> 2 [] c = "3" -> 3
                  [] c = "4" -> 4 [] c = "5" -> 5 [] c = "6" -> 6 [] c = "7" -> 7
                  [] c = "8" -> 8 [] c = "9" -> 9)

\* str(n) of a natural number
RECURSIVE IntToText(_)
IntToText(n) ==
    IF n < 10 THEN <<<<"0","1","2","3","4","5","6","7","8","9">>[n + 1]>>
    ELSE IntToText(n \div 10) \o IntToText(n % 10)

handle_set_timer(intent, env) ==
    LET duration_entity == get_entity(intent, "duration")
        unit_entity == get_entity(intent, "unit")
    IN  IF duration_entity = NoEntity \/ unit_entity = NoEntity
        THEN Returned([success |-> FALSE, message |-> M.timer_not_specified,
                       intent |-> intent.type], << >>)
        ELSE IF ~IsIntText(duration_entity.value)
        THEN \* int() raises ValueError
             Returned([success |-> FALSE, message |-> M.invalid_duration,
                       intent |-> intent.type], << >>)
        ELSE LET duration == DigitsToInt(strip(duration_entity.value))
                 unit == lower(unit_entity.value)
                 known == Contains(M.minute, unit) \/ Contains(M.second, unit)
                              \/ Contains(M.hour, unit)
                 duration_seconds ==
                     IF Contains(M.minute, unit) THEN duration * 60
                     ELSE IF Contains(M.second, unit) THEN duration
                     ELSE duration * 3600
                 plural ==
                     IF Contains(M.minute, unit) THEN M.minutes
                     ELSE IF Contains(M.second, unit) THEN M.seconds
                     ELSE M.hours
                 unit_display ==
                     IF duration = 1 THEN SubSeq(plural, 1, Len(plural) - 1) ELSE plural
                 timer_name == M.timer_prefix \o IntToText(duration) \o M.underscore
                                   \o unit_display
                 call == Call("timer_manager", "create_timer", duration_seconds)
             IN  IF ~known
                 THEN Returned([success |-> FALSE, message |-> M.unknown_unit \o unit,
                                intent |-> intent.type], << >>)
                 ELSE IF env.provider = "raise"
                 THEN \* except Exception, inside the handler
                      Returned([success |-> FALSE, message |-> M.failed_timer \o E.timer,
                                intent |-> intent.type], <<call>>)
                 ELSE Returned([success |-> TRUE,
                                message |-> M.timer_set_for \o IntToText(duration)
                                                \o M.space \o unit_display,
                                intent |-> intent.type, duration |-> duration,
                                unit |-> unit_display, timer_name |-> timer_name],
                               <<call>>)

handle_get_weather(intent, env) ==
    LET location_entity == get_entity(intent, "location")
        city == IF location_entity # NoEntity THEN location_entity.value ELSE M.london
    IN  IF env.weather = "nokey"
        THEN ProviderBool(env, Call("app_controller", "search_web", M.weather_in \o city),
                 [success |-> TRUE, message |-> M.opening_weather \o city,
                  intent |-> intent.type],
                 [success |-> FALSE, message |-> M.failed_weather, intent |-> intent.type])
        ELSE IF env.weather = "ok"
        THEN Returned([success |-> TRUE,
                       message |-> M.the_weather_in \o city \o M.is \o X.report,
                       intent |-> intent.type, city |-> city], << >>)
        ELSE Returned([success |-> FALSE, message |-> M.couldnt_fetch \o city,
                       intent |-> intent.type], << >>)

handle_get_time(intent, env) ==
    Returned([success |-> TRUE, message |-> M.the_time_is \o X.clock,
              intent |-> intent.type, time |-> X.clock], << >>)

\* _handle_volume_up, _handle_volume_down, _handle_mute, _handle_unmute,
\* _handle_lock_screen, _handle_play_media, _handle_pause_media, _handle_next_track,
\* _handle_previous_track: one SystemController call and its two messages
handle_system(intent, env, method, arg, okMessage, failMessage) ==
    ProviderBool(env, Call("system_controller", method, arg),
        [success |-> TRUE, message |-> okMessage, intent |-> intent.type],
        [success |-> FALSE, message |-> failMessage, intent |-> intent.type])

handle_volume_up(intent, env) ==
    handle_system(intent, env, "volume_up", 10, M.volume_increased, M.failed_volume_up)

handle_volume_down(intent, env) ==
    handle_system(intent, env, "volume_down", 10, M.volume_decreased, M.failed_volume_down)

handle_screenshot(intent, env) ==
    ProviderBool(env, Call("system_controller", "take_screenshot", << >>),
        [success |-> TRUE, message |-> M.screenshot_saved \o X.filepath,
         intent |-> intent.type, filepath |-> X.filepath],
        [success |-> FALSE, message |-> M.failed_screenshot,
         intent |-> intent.type, filepath |-> << >>])

handle_shutdown(intent, env) ==
    Returned([success |-> FALSE, message |-> M.shutdown_confirm, intent |-> intent.type],
             << >>)

\* the members of IntentType, by name, with their values
EnumValue ==
    [OPEN_APP |-> "open_app", CLOSE_APP |-> "close_app", SEARCH |-> "search",
     PLAY_MUSIC |-> "play_music", SET_TIMER |-> "set_timer",
     GET_WEATHER |-> "get_weather", GET_TIME |-> "get_time", VOLUME_UP |-> "volume_up",
     VOLUME_DOWN |-> "volume_down", SHUTDOWN |-> "shutdown",
     TAKE_SCREENSHOT |-> "take_screenshot", UNKNOWN |-> "unknown"]

\* the if/elif chain of dispatch: the member each branch compares intent.type with
DispatchChain ==
    <<"OPEN_APP", "CLOSE_APP", "SEARCH", "PLAY_MUSIC", "SET_TIMER", "GET_WEATHER",
      "GET_TIME", "CALCULATE", "VOLUME_UP", "VOLUME_DOWN", "MUTE", "UNMUTE",
      "LOCK_SCREEN", "TAKE_SCREENSHOT", "PLAY_MEDIA", "PAUSE_MEDIA", "NEXT_TRACK",
      "PREVIOUS_TRACK", "SHUTDOWN", "UNKNOWN">>

\* the body of the branch of the chain that compares with `member`
BranchBody(member, intent, env) ==
    CASE member = "OPEN_APP" -> handle_open_app(intent, env)
      [] member = "CLOSE_APP" -> handle_close_app(intent, env)
      [] member = "SEARCH" -> handle_search(intent, env)
      [] member = "PLAY_MUSIC" -> handle_play_music(intent, env)
      [] member = "SET_TIMER" -> handle_set_timer(intent, env)
      [] member = "GET_WEATHER" -> handle_get_weather(intent, env)
      [] member = "GET_TIME" -> handle_get_time(intent, env)
      [] member = "VOLUME_UP" -> handle_volume_up(intent, env)
      [] member = "VOLUME_DOWN" -> handle_volume_down(intent, env)
      [] member = "MUTE" ->
            handle_system(intent, env, "mute", << >>, M.audio_muted, M.failed_mute)
      [] member = "UNMUTE" ->
            handle_system(intent, env, "unmute", << >>, M.audio_unmuted, M.failed_unmute)
      [] member = "LOCK_SCREEN" ->
            handle_system(intent, env, "lock_screen", << >>, M.screen_locked, M.failed_lock)
      [] member = "TAKE_SCREENSHOT" -> handle_screenshot(intent, env)
      [] member = "PLAY_MEDIA" ->
            handle_system(intent, env, "play_media", << >>, M.media_playing,
                          M.failed_play_media)
      [] member = "PAUSE_MEDIA" ->
            handle_system(intent, env, "pause_media", << >>, M.media_paused,
                          M.failed_pause_media)
      [] member = "NEXT_TRACK" ->
            handle_system(intent, env, "next_track", << >>, M.next_track,
                          M.failed_next_track)
      [] member = "PREVIOUS_TRACK" ->
            handle_system(intent, env, "previous_track", << >>, M.previous_track,
                          M.failed_previous_track)
      [] member = "SHUTDOWN" -> handle_shutdown(intent, env)
      [] member = "UNKNOWN" ->
            Returned([success |-> FALSE, message |-> M.didnt_understand,
                      intent |-> intent.type], << >>)

\* The chain from branch i on.  Each branch first evaluates IntentType.<member>,
\* which raises AttributeError when the enumeration has no such member; a branch whose
\* member is intent.type runs its body; after the last branch comes the else.  The
\* branch of CALCULATE (_handle_calculate) is never entered: its test raises.
RECURSIVE WalkChain(_, _, _)
WalkChain(i, intent, env) ==
    IF i > Len(DispatchChain)
    THEN Returned([success |-> FALSE,
                   message |-> M.action_for \o << intent.type >> \o M.not_implemented,
                   intent |-> intent.type], << >>)
    ELSE IF DispatchChain[i] \notin DOMAIN EnumValue
    THEN Raised(IF env.python = "py311" THEN E.calculate ELSE E.no_attribute, << >>)
    ELSE IF intent.type = EnumValue[DispatchChain[i]]
    THEN BranchBody(DispatchChain[i], intent, env)
    ELSE WalkChain(i + 1, intent, env)

\* Fault variant of dispatch: the chain without the except clause
dispatch_no_except(intent, env) ==
    LET body == WalkChain(1, intent, env)
    IN  [escaped |-> body.raised, calls |-> body.calls, result |-> body.result]

\* Fault variant of dispatch: the except clause reports a success
dispatch_error_ok(intent, env) ==
    LET body == WalkChain(1, intent, env)
    IN  IF body.raised
        THEN [escaped |-> FALSE, calls |-> body.calls,
              result |-> [success |-> TRUE, message |-> M.error_executing \o body.exc,
                          intent |-> intent.type]]
        ELSE [escaped |-> FALSE, calls |-> body.calls, result |-> body.result]

\* CommandDispatcher.dispatch: the chain inside try, and the except clause that turns
\* an exception into a result.  escaped tells whether an exception left dispatch.
dispatch(intent, env) ==
    LET body == WalkChain(1, intent, env)
    IN  IF body.raised
        THEN [escaped |-> FALSE, calls |-> body.calls,
              result |-> [success |-> FALSE, message |-> M.error_executing \o body.exc,
                          intent |-> intent.type]]
        ELSE [escaped |-> FALSE, calls |-> body.calls, result |-> body.result]

\* what the caller types
U ==
    [open_chrome |-> <<"o","p","e","n"," ","c","h","r","o","m","e">>,
     music |-> <<"m","u","s","i","c">>,
     hello |-> <<"h","e","l","l","o">>,
     what_time |-> <<"w","h","a","t"," ","t","i","m","e"," ","i","s"," ","i","t">>]

\* what LocalLLMClient.chat gives: a reply, or the text of its exception
R ==
    [reply |-> <<"H","e","l","l","o","!"," ","H","o","w"," ","c","a","n"," ","I"," ",
          "h","e","l","p","?">>,
     refused |-> <<"H","T","T","P","C","o","n","n","e","c","t","i","o","n","P","o","o",
          "l","(","h","o","s","t","=","'","l","o","c","a","l","h","o","s","t","'",",",
          " ","p","o","r","t","=","1","1","4","3","4",")",":"," ","M","a","x"," ","r",
          "e","t","r","i","e","s"," ","e","x","c","e","e","d","e","d"," ","(","C","a",
          "u","s","e","d"," ","b","y"," ","N","e","w","C","o","n","n","e","c","t","i",
          "o","n","E","r","r","o","r",":"," ","F","a","i","l","e","d"," ","t","o"," ",
          "e","s","t","a","b","l","i","s","h"," ","a"," ","n","e","w"," ","c","o","n",
          "n","e","c","t","i","o","n",":"," ","[","E","r","r","n","o"," ","1","1","1",
          "]"," ","C","o","n","n","e","c","t","i","o","n"," ","r","e","f","u","s","e",
          "d",")">>,
     http500 |-> <<"5","0","0"," ","S","e","r","v","e","r"," ","E","r","r","o","r",":",
          " ","I","n","t","e","r","n","a","l"," ","S","e","r","v","e","r"," ","E","r",
          "r","o","r"," ","f","o","r"," ","u","r","l",":"," ","h","t","t","p",":","/",
          "/","l","o","c","a","l","h","o","s","t",":","1","1","4","3","4","/","a","p",
          "i","/","c","h","a","t">>]

\* the texts of the controller: the words of its tests on error texts
T ==
    [failed_to_establish |-> <<"f","a","i","l","e","d"," ","t","o"," ","e","s","t","a",
          "b","l","i","s","h"," ","a"," ","n","e","w"," ","c","o","n","n","e","c","t",
          "i","o","n">>,
     actively_refused |-> <<"a","c","t","i","v","e","l","y"," ","r","e","f","u","s","e",
          "d">>,
     network |-> <<"n","e","t","w","o","r","k">>,
     connection |-> <<"c","o","n","n","e","c","t","i","o","n">>,
     timeout |-> <<"t","i","m","e","o","u","t">>,
     microphone |-> <<"m","i","c","r","o","p","h","o","n","e">>,
     device |-> <<"d","e","v","i","c","e">>,
     dispatcher_not_init |-> <<"D","i","s","p","a","t","c","h","e","r"," ","n","o","t",
          " ","i","n","i","t","i","a","l","i","z","e","d">>]

\* the error texts of a failed RecognitionResult
S ==
    [service_error |-> <<"S","e","r","v","i","c","e"," ","e","r","r","o","r",":"," ",
          "r","e","c","o","g","n","i","t","i","o","n"," ","c","o","n","n","e","c","t",
          "i","o","n"," ","f","a","i","l","e","d">>,
     timeout |-> <<"R","e","c","o","g","n","i","t","i","o","n"," ","r","e","q","u","e",
          "s","t"," ","t","i","m","e","o","u","t">>,
     device |-> <<"N","o"," ","d","e","f","a","u","l","t"," ","i","n","p","u","t"," ",
          "d","e","v","i","c","e"," ","a","v","a","i","l","a","b","l","e">>,
     not_understood |-> <<"C","o","u","l","d"," ","n","o","t"," ","u","n","d","e","r",
          "s","t","a","n","d"," ","a","u","d","i","o">>]

(***************************************************************************)
(* ui/controller.py                                                        *)
(*                                                                         *)
(* The caller's thread runs start() and stop() and submits commands; each  *)
(* command runs _process_text or _process_voice on a thread of its own, a  *)
(* slot of `workers`.  One action is one step of one thread between two    *)
(* points where another thread can run: a read or write of shared state    *)
(* (_running, _llm, _history, the components that start() creates) or a    *)
(* blocking call of a collaborator.                                        *)
(***************************************************************************)
\* AssistantSettings.stt_retry_on_failure
stt_retry_on_failure == 1

\* the number of worker threads alive at once, and of commands submitted in a run
MaxWorkers == 2

MaxCommands == 2

Slots == 1..MaxWorkers

\* what the caller types or says
Utterances == {U.open_chrome, U.music, U.hello, U.what_time}

\* what the transcriber recognises
Heard == {U.open_chrome, U.hello}

\* the error texts of a failed RecognitionResult
SttErrors == {S.service_error, S.timeout, S.device, S.not_understood}

\* what Transcriber.listen_once gives: a result, or an exception
SttOutcomes ==
    [kind : {"ok"}, text : Heard, error : {<< >>}]
        \cup [kind : {"failed"}, text : {<< >>}, error : SttErrors]
        \cup [kind : {"raise"}, text : {<< >>}, error : {<< >>}]

\* what LocalLLMClient.chat gives: a reply (maybe empty) or an exception with its text
ChatOutcomes ==
    [kind : {"reply"}, text : {R.reply, << >>}]
        \cup [kind : {"raise"}, text : {R.refused, R.http500}]

\* the collaborators' outcomes of one dispatch
Envs ==
    [provider : {"true", "false", "raise"},
     weather : {"nokey", "ok", "httperr"},
     python : {"py311", "py312"}]

NoIntent ==
    [type |-> "None", confidence |-> 0, text |-> << >>, entities |-> << >>,
     raw_text |-> << >>]

IdleWorker ==
    [pc |-> "idle", kind |-> "none", text |-> << >>, attempts |-> 0, listens |-> 0,
     heard |-> FALSE, intent |-> NoIntent, res |-> NoResult,
     parses |-> 0, dispatches |-> 0, chats |-> 0, appends |-> 0, log |-> << >>,
     thread |-> "none"]

VARIABLES
    running,            \* _running
    llm,                \* _llm: TRUE for the client, FALSE for None
    history,            \* _history
    dispatcher,         \* _dispatcher is not None
    parser,             \* _parser is not None
    stt,                \* _stt is not None
    ui_pc,              \* where the caller's thread is: "idle", or inside start()
    workers,            \* the command threads
    commands,           \* commands submitted so far
    chatStarted,        \* calls of LocalLLMClient.chat started so far
    connFailed,         \* a chat call has raised a connection-refused-class error
    unreachableNotices, \* "Local LLM is not reachable" notices emitted so far
    d_pc, d_intent, d_env, d_out    \* a dispatch on its own: input, outcome

ctlVars ==
    <<running, llm, history, dispatcher, parser, stt, ui_pc, workers, commands,
      chatStarted, connFailed, unreachableNotices>>

dispVars == <<d_pc, d_intent, d_env, d_out>>

\* the wake-word monitor (src/wake_word): one monitor object, its threads
VARIABLES
    wake_variant,       \* the class of the monitor object
    threshold,          \* confidence_threshold it was constructed with, in hundredths
    is_running,         \* is_running
    state,              \* state, as DetectionState.value
    listeners,          \* listeners
    added,              \* the callbacks added and not removed since
    detection_thread,   \* detection_thread / processing_thread: 0 for None
    audio_buffer,       \* len(audio_buffer), filled by the stream callback
    loops,              \* the threads that start() has created
    caller_pc,          \* where the thread that calls start()/stop() is
    stopped,            \* stop() has returned and start() was not called since
    chunks              \* audio chunks captured so far

wakeVars ==
    <<wake_variant, threshold, is_running, state, listeners, added,
      detection_thread, audio_buffer, loops, caller_pc, stopped, chunks>>

\* the controller as the monitor's listener
VARIABLES
    wake_activations    \* calls of _on_wake_word made while the controller runs

\* one call of IntentParser.parse, seen from its caller
VARIABLES
    parse_call          \* [pc, text, out, scanned]

\* the window: the queue between the controller's callbacks and the UI thread
VARIABLES
    ui                  \* [queue, sent, shown, drain]

\* the controller's lock, its shared fields and its threads, step by step
VARIABLES
    lock,               \* _lock: 0 when free, else the thread that holds it
    shared,             \* _running, _wake_enabled, _wake_started, _wake
    threads             \* where each thread is in the method it runs

\* the timers of src/actions/timer.py
VARIABLES
    timers,             \* TimerManager.timers: name -> index of the Timer object
    timer_objects       \* every Timer created, in the order of creation

\* the performance monitor of src/performance.py
VARIABLES
    monitor_lock,       \* PerformanceMonitor.lock: 0 when free, else its holder
    metrics,            \* PerformanceMonitor.metrics: name -> length of its deque
    perf_threads        \* where each thread is in the monitor's method it runs

timerVars == <<timers, timer_objects>>

perfVars == <<monitor_lock, metrics, perf_threads>>

sideVars == <<parse_call, ui, lock, shared, threads, timerVars, perfVars>>

restVars == <<dispVars, wakeVars, wake_activations, sideVars>>

vars == <<ctlVars, dispVars, wakeVars, wake_activations, sideVars>>

\* command threads alive at one time
MaxThreads == 1

\* thread 1 is the window's, thread 2 the monitor's loop, thread 3 another
\* thread that calls the controller's public methods, the others are command
\* threads
ThreadIds == 1..(3 + MaxThreads)

Role(t) ==
    IF t = 1 THEN "caller" ELSE IF t = 2 THEN "monitor"
    ELSE IF t = 3 THEN "second" ELSE "worker"

\* a thread that runs nothing
IdleThread ==
    [routine |-> "none",    \* the method it runs, or ran last
     pc |-> 0,              \* its step in it; 0 when it runs nothing
     entry |-> [_running |-> FALSE, _wake_enabled |-> FALSE,
                _wake_started |-> FALSE,
                _wake |-> FALSE],   \* the fields when the method was entered
                                    \* (_wake: self._wake is not None)
     emitted |-> FALSE,     \* a callback of the window was made in this call
     calls |-> FALSE,       \* a collaborator was called in this call
     ret |-> "none",        \* what the call returned; "raised" for an exception
     got |-> FALSE]         \* what self._wake.start() returned to the method
                            \* (entry, emitted, calls, ret: of the window's thread)

\* AssistantController.__init__: the lock is free (0), the flags are off
NoThreads ==
    /\ lock = 0
    /\ shared = IdleThread.entry
    /\ threads = [t \in ThreadIds |-> IdleThread]

\* TimerManager.__init__: no timers
NoTimers == timers = [k \in {} |-> 0] /\ timer_objects = << >>

\* the threads that use the performance monitor
PerfThreads == 1..2

IdlePerf == [routine |-> "none", pc |-> "idle", inner |-> FALSE, name |-> "none",
             todo |-> {}]

\* PerformanceMonitor.__init__: threading.Lock() is free, no metric is recorded
NoMetrics ==
    /\ monitor_lock = 0
    /\ metrics = [k \in {} |-> 0]
    /\ perf_threads = [t \in PerfThreads |-> IdlePerf]

\* no call of parse is under way
NoCall == [pc |-> "off", text |-> << >>, out |-> NoIntent, scanned |-> 0]

\* ModernAssistantUI.__init__: an empty queue, nothing shown, _drain_queue
\* scheduled
NoNotices ==
    [queue |-> << >>,                   \* _ui_queue
     sent |-> [w \in Slots |-> 0],      \* callbacks made by each command thread
     shown |-> << >>,                   \* the notices handled, with the handling thread
     drain |-> "scheduled"]             \* _drain_queue: scheduled, or in its loop

NoSide == parse_call = NoCall /\ ui = NoNotices /\ NoThreads /\ NoTimers /\ NoMetrics

NoOut == [escaped |-> FALSE, calls |-> << >>, result |-> NoResult]

\* AssistantController.__init__ (enable_llm is True by default)
InitController ==
    /\ running = FALSE
    /\ llm = TRUE
    /\ history = << >>
    /\ dispatcher = FALSE
    /\ parser = FALSE
    /\ stt = FALSE
    /\ ui_pc = "idle"
    /\ workers = [w \in Slots |-> IdleWorker]
    /\ commands = 0
    /\ chatStarted = 0
    /\ connFailed = FALSE
    /\ unreachableNotices = 0

Turn(role, content) == [role |-> role, content |-> content]

\* start(), lines 80-83: under the lock, nothing to do when already running
StartBegin ==
    /\ ui_pc = "idle"
    /\ ~running
    /\ running' = TRUE
    /\ ui_pc' = "init"
    /\ UNCHANGED <<llm, history, dispatcher, parser, stt, workers, commands,
                   chatStarted, connFailed, unreachableNotices, restVars>>

\* start(), lines 86-98: the dispatcher, the parser and the transcriber are created,
\* in this order, and start() returns True
StartCreate ==
    /\ ui_pc = "init"
    /\ dispatcher' = TRUE
    /\ parser' = TRUE
    /\ stt' = TRUE
    /\ ui_pc' = "idle"
    /\ UNCHANGED <<running, llm, history, workers, commands, chatStarted, connFailed,
                   unreachableNotices, restVars>>

\* start(), lines 99-104: the constructor after the first `made` components raised;
\* the run flag is reset and start() returns False
StartFail(made) ==
    /\ ui_pc = "init"
    /\ dispatcher' = (dispatcher \/ made >= 1)
    /\ parser' = (parser \/ made >= 2)
    /\ stt' = stt
    /\ running' = FALSE
    /\ ui_pc' = "idle"
    /\ UNCHANGED <<llm, history, workers, commands, chatStarted, connFailed,
                   unreachableNotices, restVars>>

\* stop(), lines 107-116
Stop ==
    /\ ui_pc = "idle"
    /\ running
    /\ running' = FALSE
    /\ UNCHANGED <<llm, history, dispatcher, parser, stt, ui_pc, workers, commands,
                   chatStarted, connFailed, unreachableNotices, restVars>>

\* threading.Thread(...).start(): the new thread takes the first free slot
\* Fault variant of ThreadOf: the target is called on the caller's thread
ThreadOf_inline(caller) == caller

\* threading.Thread(target=...).start(), lines 123 and 126: the target runs on
\* a thread of its own, whoever the caller is
ThreadOf(caller) == "worker"

Spawn(w, kind, text, pc) ==
    /\ ui_pc = "idle"
    /\ commands < MaxCommands
    /\ workers[w].pc = "idle"
    /\ \A v \in Slots : workers[v].pc = "idle" => w <= v
    /\ workers' = [workers EXCEPT ![w] = [IdleWorker EXCEPT !.pc = pc, !.kind = kind,
                                                              !.text = text,
                                                              !.thread = ThreadOf("ui")]]
    /\ commands' = commands + 1
    /\ UNCHANGED <<running, llm, history, dispatcher, parser, stt, ui_pc, chatStarted,
                   connFailed, unreachableNotices, restVars>>

\* run_text_command: a blank text starts no thread
RunText(w, text) ==
    /\ text # << >>
    /\ strip(text) # << >>
    /\ Spawn(w, "text", text, "t_enter")

\* run_voice_command
RunVoice(w) == Spawn(w, "voice", << >>, "v_enter")

\* _on_wake_word, called by _notify_listeners on the monitor's loop thread:
\* nothing when the controller is not running; otherwise the notice, the
\* spoken "Yes?" and run_voice_command
OnWakeWord(w) ==
    /\ workers[w].pc = "idle"
    /\ \A v \in Slots : workers[v].pc = "idle" => w <= v
    /\ commands < MaxCommands
    /\ IF running
       THEN /\ wake_activations' = wake_activations + 1
            /\ workers' = [workers EXCEPT ![w] =
                               [IdleWorker EXCEPT !.pc = "v_enter", !.kind = "voice",
                                                  !.thread = ThreadOf("monitor")]]
            /\ commands' = commands + 1
       ELSE UNCHANGED <<wake_activations, workers, commands>>
    /\ UNCHANGED <<running, llm, history, dispatcher, parser, stt, ui_pc, chatStarted,
                   connFailed, unreachableNotices, dispVars, wakeVars, sideVars>>

Step(w, new) ==
    /\ workers' = [workers EXCEPT ![w] = new]
    /\ UNCHANGED <<running, dispatcher, parser, stt, ui_pc, commands, restVars>>

Logged(rec, notice) == [rec EXCEPT !.log = Append(@, notice)]

\* _process_text, lines 137-138: is_running, read under the lock
TEnter(w) ==
    /\ workers[w].pc = "t_enter"
    /\ Step(w, [workers[w] EXCEPT !.pc = IF running THEN "t_record" ELSE "done"])
    /\ UNCHANGED <<llm, history, chatStarted, connFailed, unreachableNotices>>

\* _process_text, lines 139-142
TRecord(w) ==
    /\ workers[w].pc = "t_record"
    /\ history' = Append(history, Turn("user", workers[w].text))
    /\ Step(w, [Logged(workers[w], "you") EXCEPT !.pc = "t_parse", !.appends = @ + 1])
    /\ UNCHANGED <<llm, chatStarted, connFailed, unreachableNotices>>

\* Fault variant of Confident: the threshold is exclusive
Confident_strict(intent) == intent.type # "unknown" /\ intent.confidence > 60

\* line 149: a confident intent that is not UNKNOWN goes to the command pipeline
Confident(intent) == intent.type # "unknown" /\ intent.confidence >= 60

\* the worker once parse has returned intent: lines 149-150 choose the branch
Parsed(wk, intent) ==
    [wk EXCEPT !.intent = intent,
               !.parses = @ + (IF parser THEN 1 ELSE 0),
               !.pc = IF intent # NoIntent /\ Confident(intent) THEN "t_dispatch"
                      ELSE "t_chat_gate"]

\* _process_text, lines 144-149
TParse(w) ==
    /\ workers[w].pc = "t_parse"
    /\ Step(w, Parsed(workers[w], IF parser THEN parse(workers[w].text) ELSE NoIntent))
    /\ UNCHANGED <<llm, history, chatStarted, connFailed, unreachableNotices>>

\* _process_text, lines 150-153: the dispatch, with its ActionProvider call
TDispatch(w, env) ==
    /\ workers[w].pc = "t_dispatch"
    /\ LET res == IF dispatcher THEN dispatch(workers[w].intent, env).result
                  ELSE [success |-> FALSE, message |-> T.dispatcher_not_init]
       IN  Step(w, [workers[w] EXCEPT !.res = res,
                                      !.dispatches = @ + (IF dispatcher THEN 1 ELSE 0),
                                      !.pc = "t_report"])
    /\ UNCHANGED <<llm, history, chatStarted, connFailed, unreachableNotices>>

\* Fault variant of Handled: a failed dispatch counts as not handled
Handled_bySuccess(res) == res.success

\* line 161: whatever the dispatch returned, the command pipeline handled it
Handled(res) == TRUE

\* _process_text, lines 154-161
TReport(w) ==
    /\ workers[w].pc = "t_report"
    /\ LET msg == workers[w].res.message
           next == IF Handled(workers[w].res) THEN "done" ELSE "t_chat_gate"
       IN  IF msg # << >>
           THEN /\ history' = Append(history, Turn("assistant", msg))
                /\ Step(w, [Logged(workers[w], "spark") EXCEPT !.pc = next,
                                                               !.appends = @ + 1])
           ELSE /\ history' = history
                /\ Step(w, [workers[w] EXCEPT !.pc = next])
    /\ UNCHANGED <<llm, chatStarted, connFailed, unreachableNotices>>

\* _process_text, line 164: no chat without a client; nothing is logged then
TChatGate(w) ==
    /\ workers[w].pc = "t_chat_gate"
    /\ Step(w, [workers[w] EXCEPT !.pc = IF llm THEN "t_chat_begin" ELSE "done"])
    /\ UNCHANGED <<llm, history, chatStarted, connFailed, unreachableNotices>>

\* _chat_with_llm, lines 199-216: the client is read again; without it the
\* RuntimeError (or the AttributeError of None.chat) is logged as an LLM error by
\* line 175.  With it the chat call starts.
TChatBegin(w) ==
    /\ workers[w].pc = "t_chat_begin"
    /\ IF llm
       THEN /\ chatStarted' = chatStarted + 1
            /\ Step(w, [workers[w] EXCEPT !.pc = "t_chat_wait", !.chats = @ + 1])
       ELSE /\ chatStarted' = chatStarted
            /\ Step(w, [Logged(workers[w], "llm_error") EXCEPT !.pc = "done"])
    /\ UNCHANGED <<llm, history, connFailed, unreachableNotices>>

\* the chat call returns or raises; lines 167-171 and 175-179; line 170 is the
\* connection-refused class of a chat exception
TChatReturn(w, outcome) ==
    /\ workers[w].pc = "t_chat_wait"
    /\ IF outcome.kind = "reply"
       THEN /\ IF outcome.text # << >>
               THEN /\ history' = Append(history, Turn("assistant", outcome.text))
                    /\ Step(w, [Logged(workers[w], "spark") EXCEPT !.pc = "done",
                                                                   !.appends = @ + 1])
               ELSE /\ history' = history
                    /\ Step(w, [workers[w] EXCEPT !.pc = "done"])
            /\ UNCHANGED <<connFailed, unreachableNotices>>
       ELSE IF \/ Contains(T.failed_to_establish, lower(outcome.text))
               \/ Contains(T.actively_refused, lower(outcome.text))
       THEN /\ connFailed' = TRUE
            /\ unreachableNotices' = unreachableNotices + 1
            /\ Step(w, [Logged(workers[w], "llm_unreachable") EXCEPT
                            !.pc = "t_chat_disable"])
            /\ history' = history
       ELSE /\ Step(w, [Logged(workers[w], "llm_error") EXCEPT !.pc = "done"])
            /\ UNCHANGED <<history, connFailed, unreachableNotices>>
    /\ UNCHANGED <<llm, chatStarted>>

\* line 173: the client is dropped for the rest of the session
TChatDisable(w) ==
    /\ workers[w].pc = "t_chat_disable"
    /\ llm' = FALSE
    /\ Step(w, [workers[w] EXCEPT !.pc = "done"])
    /\ UNCHANGED <<history, chatStarted, connFailed, unreachableNotices>>

\* _process_voice, lines 219-228
VEnter(w) ==
    /\ workers[w].pc = "v_enter"
    /\ Step(w, IF ~running THEN [workers[w] EXCEPT !.pc = "done"]
               ELSE IF ~stt THEN [Logged(workers[w], "stt_not_initialized") EXCEPT
                                      !.pc = "done"]
               ELSE [Logged(workers[w], "listening") EXCEPT !.pc = "v_listen"])
    /\ UNCHANGED <<llm, history, chatStarted, connFailed, unreachableNotices>>

\* Fault variant of RetryAllowed: the bound is off by one
RetryAllowed_extra(attempts) == attempts <= stt_retry_on_failure + 1

\* line 232 and line 237: another attempt is made while attempts <= the retry bound
RetryAllowed(attempts) == attempts <= stt_retry_on_failure

\* lines 241-249: the notice for the error of the last failed result
FailureNotice(error_msg) ==
    IF Contains(T.network, lower(error_msg)) \/ Contains(T.connection, lower(error_msg))
    THEN "stt_network"
    ELSE IF Contains(T.timeout, lower(error_msg)) THEN "stt_timeout"
    ELSE IF Contains(T.microphone, lower(error_msg)) \/ Contains(T.device, lower(error_msg))
    THEN "stt_device"
    ELSE "stt_not_understood"

\* Fault variant of AfterListen: the failure branch lacks its return
AfterListen_fallthrough(rec, ok, error_msg) ==
    IF ok THEN [rec EXCEPT !.pc = "t_enter"]
    ELSE [Logged(rec, FailureNotice(error_msg)) EXCEPT !.pc = "t_enter"]

\* lines 240-251: after the loop, a failed result ends the session with its notice
\* (return), a successful one goes on to _process_text
AfterListen(rec, ok, error_msg) ==
    IF ok THEN [rec EXCEPT !.pc = "t_enter"]
    ELSE [Logged(rec, FailureNotice(error_msg)) EXCEPT !.pc = "done"]

\* _process_voice, lines 232-253: one turn of the loop, a call of listen_once, and
\* what follows it when the loop ends
VListen(w, outcome) ==
    /\ workers[w].pc = "v_listen"
    /\ RetryAllowed(workers[w].attempts)
    /\ LET called == [workers[w] EXCEPT !.listens = @ + 1]
       IN  IF outcome.kind = "raise"
           THEN Step(w, [Logged(called, "voice_error") EXCEPT !.pc = "done"])
           ELSE IF outcome.kind = "ok"
           THEN Step(w, AfterListen([called EXCEPT !.heard = TRUE,
                                                   !.text = outcome.text],
                                    TRUE, << >>))
           ELSE LET failed == [called EXCEPT !.attempts = @ + 1]
                IN  IF RetryAllowed(failed.attempts)
                    THEN Step(w, Logged(failed, "retry"))
                    ELSE Step(w, AfterListen(failed, FALSE, outcome.error))
    /\ UNCHANGED <<llm, history, chatStarted, connFailed, unreachableNotices>>

\* the thread of a finished command ends
Reap(w) ==
    /\ workers[w].pc = "done"
    /\ Step(w, IdleWorker)
    /\ UNCHANGED <<llm, history, chatStarted, connFailed, unreachableNotices>>

\* _wake is None until set_wake_word_enabled: there is no monitor object
NoMonitor ==
    /\ wake_variant = "none"
    /\ threshold = 0
    /\ added = {}
    /\ is_running = FALSE
    /\ state = "idle"
    /\ listeners = << >>
    /\ detection_thread = 0
    /\ audio_buffer = 0
    /\ loops = << >>
    /\ caller_pc = "idle"
    /\ stopped = FALSE
    /\ chunks = 0
    /\ wake_activations = 0

Init ==
    /\ InitController
    /\ NoMonitor
    /\ NoSide
    /\ d_pc = "off"
    /\ d_intent = NoIntent
    /\ d_env = [provider |-> "true", weather |-> "nokey", python |-> "py311"]
    /\ d_out = NoOut

Next ==
    \/ StartBegin
    \/ StartCreate
    \/ \E made \in 0..2 : StartFail(made)
    \/ Stop
    \/ \E w \in Slots : \E text \in Utterances : RunText(w, text)
    \/ \E w \in Slots : RunVoice(w)
    \/ \E w \in Slots : OnWakeWord(w)
    \/ \E w \in Slots : TEnter(w)
    \/ \E w \in Slots : TRecord(w)
    \/ \E w \in Slots : TParse(w)
    \/ \E w \in Slots : \E env \in Envs : TDispatch(w, env)
    \/ \E w \in Slots : TReport(w)
    \/ \E w \in Slots : TChatGate(w)
    \/ \E w \in Slots : TChatBegin(w)
    \/ \E w \in Slots : \E outcome \in ChatOutcomes : TChatReturn(w, outcome)
    \/ \E w \in Slots : TChatDisable(w)
    \/ \E w \in Slots : VEnter(w)
    \/ \E w \in Slots : \E outcome \in SttOutcomes : VListen(w, outcome)
    \/ \E w \in Slots : Reap(w)

Spec == Init /\ [][Next]_vars

(***************************************************************************)
(* A dispatch on its own: the intent and the collaborators' outcomes are   *)
(* drawn by the initial state, the one step applies dispatch to them.      *)
(***************************************************************************)
\* the longest entity list of a drawn intent
MaxEntities == 2

\* the entities of the drawn intents: every role the handlers ask for, with values
\* that take the handlers down each of their paths
EntityLists ==
  LET pool ==
    {Entity("app_name", V.chrome), Entity("query", V.python),
     Entity("song_name", V.jazz), Entity("location", V.paris),
     Entity("duration", V.five), Entity("duration", V.one), Entity("duration", V.abc),
     Entity("unit", V.Minutes), Entity("unit", V.second), Entity("unit", V.hours),
     Entity("unit", V.days)}
  IN  UNION {[1..n -> pool] : n \in 0..MaxEntities}

Intents ==
    [type : IntentType, confidence : {120}, text : {<< >>}, entities : EntityLists,
     raw_text : {<< >>}]

InitDispatch ==
    /\ InitController
    /\ d_pc = "ready"
    /\ d_intent \in Intents
    /\ d_env \in Envs
    /\ d_out = NoOut
    /\ NoMonitor
    /\ NoSide

DispatchStep ==
    /\ d_pc = "ready"
    /\ d_out' = dispatch(d_intent, d_env)
    /\ d_pc' = "done"
    /\ UNCHANGED <<d_intent, d_env, ctlVars, wakeVars, wake_activations, sideVars>>

NextDispatch == DispatchStep

SpecDispatch == InitDispatch /\ [][NextDispatch]_vars


(***************************************************************************)
(* A running controller that has already served some commands: start() has *)
(* returned True, and the history holds what the earlier commands left.    *)
(***************************************************************************)
\* the number of commands served before the first state
MaxPast == 3

\* _history after k served "open chrome" commands: each leaves the turn of line 142
\* and the turn of line 157, and nothing is ever removed from it
RECURSIVE PastHistory(_)
PastHistory(k) ==
    IF k = 0 THEN << >>
    ELSE PastHistory(k - 1) \o
         <<Turn("user", U.open_chrome),
           Turn("assistant",
                dispatch(parse(U.open_chrome),
                         [provider |-> "true", weather |-> "nokey",
                          python |-> "py311"]).result.message)>>

InitHistory ==
    /\ running = TRUE
    /\ llm = TRUE
    /\ history \in {PastHistory(k) : k \in 0..MaxPast}
    /\ dispatcher = TRUE
    /\ parser = TRUE
    /\ stt = TRUE
    /\ ui_pc = "idle"
    /\ workers = [w \in Slots |-> IdleWorker]
    /\ commands = 0
    /\ chatStarted = 0
    /\ connFailed = FALSE
    /\ unreachableNotices = 0
    /\ d_pc = "off"
    /\ d_intent = NoIntent
    /\ d_env = [provider |-> "true", weather |-> "nokey", python |-> "py311"]
    /\ d_out = NoOut
    /\ NoMonitor
    /\ NoSide

\* text and voice commands on the running controller
NextHistory ==
    \/ \E w \in Slots : \E text \in Utterances : RunText(w, text)
    \/ \E w \in Slots : RunVoice(w)
    \/ \E w \in Slots : TEnter(w)
    \/ \E w \in Slots : TRecord(w)
    \/ \E w \in Slots : TParse(w)
    \/ \E w \in Slots : \E env \in Envs : TDispatch(w, env)
    \/ \E w \in Slots : TReport(w)
    \/ \E w \in Slots : TChatGate(w)
    \/ \E w \in Slots : TChatBegin(w)
    \/ \E w \in Slots : \E outcome \in ChatOutcomes : TChatReturn(w, outcome)
    \/ \E w \in Slots : TChatDisable(w)
    \/ \E w \in Slots : VEnter(w)
    \/ \E w \in Slots : \E outcome \in SttOutcomes : VListen(w, outcome)
    \/ \E w \in Slots : Reap(w)

SpecHistory == InitHistory /\ [][NextHistory]_vars

\* the words and phrases of the texts handed to parse
PW ==
    [open |-> <<"o","p","e","n">>,
     launch |-> <<"l","a","u","n","c","h">>,
     start |-> <<"s","t","a","r","t">>,
     close |-> <<"c","l","o","s","e">>,
     chrome |-> <<"c","h","r","o","m","e">>,
     Chrome |-> <<"C","h","r","o","m","e">>,
     music |-> <<"m","u","s","i","c">>,
     volume |-> <<"v","o","l","u","m","e">>,
     up |-> <<"u","p">>,
     shut |-> <<"s","h","u","t">>,
     down |-> <<"d","o","w","n">>,
     shutdown |-> <<"s","h","u","t","d","o","w","n">>,
     my_app |-> <<"m","y","\n","a","p","p">>,
     set_timer |-> <<"s","e","t"," ","t","i","m","e","r"," ","f","o","r"," ","5"," ","m","i","n","u","t","e","s">>,
     timer_only |-> <<"t","i","m","e","r"," ","f","o","r"," ","t","e","n"," ","m","i","n","u","t","e","s">>,
     weather |-> <<"w","e","a","t","h","e","r"," ","i","n"," ","P","a","r","i","s">>,
     music_volume_up |-> <<"m","u","s","i","c"," ","v","o","l","u","m","e"," "," ","u","p">>]


(***************************************************************************)
(* IntentParser.parse on its own: one call on a text of the caller         *)
(***************************************************************************)
MaxWords == 2

\* the texts of at most n words, joined without a space, by one or by two
RECURSIVE TextsOf(_)
TextsOf(n) ==
    IF n <= 1
    THEN {PW.open, PW.launch, PW.start, PW.close, PW.chrome, PW.Chrome, PW.music,
          PW.volume, PW.up, PW.shut, PW.down, PW.shutdown, PW.my_app}
    ELSE TextsOf(n - 1)
           \cup {a \o sep \o b : a \in TextsOf(n - 1),
                                  sep \in {<< >>, <<" ">>, <<" ", " ">>},
                                  b \in TextsOf(1)}

\* what parse is called with: blank texts, phrases, texts of words, padded words
ParseTexts ==
    {<< >>, <<" ">>, <<" ", "\t", " ">>}
        \cup {PW.set_timer, PW.timer_only, PW.weather, PW.music_volume_up}
        \cup TextsOf(MaxWords)
        \cup {<<" ">> \o a \o <<" ">> : a \in TextsOf(1)}

\* the number of rows of the table whose keywords and patterns parse evaluates
Scanned_all(text) == Len(patterns)

Scanned(text) == IF text = << >> \/ strip(text) = << >> THEN 0 ELSE Len(patterns)

InitParse ==
    /\ \E text \in ParseTexts :
          parse_call = [NoCall EXCEPT !.pc = "call", !.text = text]
    /\ ui = NoNotices
    /\ NoThreads
    /\ NoTimers
    /\ NoMetrics
    /\ NoMonitor
    /\ InitController
    /\ d_pc = "off"
    /\ d_intent = NoIntent
    /\ d_env = [provider |-> "true", weather |-> "nokey", python |-> "py311"]
    /\ d_out = NoOut

\* the call: the blank test, the lower-casing, the scan of the table and the
\* Intent handed back
ParseStep ==
    /\ parse_call.pc = "call"
    /\ parse_call' = [parse_call EXCEPT !.pc = "returned",
                                        !.out = parse(parse_call.text),
                                        !.scanned = Scanned(parse_call.text)]
    /\ UNCHANGED <<ctlVars, dispVars, wakeVars, wake_activations, ui, lock, shared, threads, timerVars, perfVars>>

SpecParse == InitParse /\ [][ParseStep]_vars


(***************************************************************************)
(* ModernAssistantUI (ui/modern_app.py): the controller's callbacks put    *)
(* notices on a queue.Queue from the command threads, and _drain_queue,    *)
(* which Tk runs on the UI thread every 60 ms, takes them off and shows    *)
(* them.                                                                   *)
(***************************************************************************)
\* callbacks made by one command thread
MaxNotices == 3

\* queue.Queue.get_nowait: the oldest item
get_nowait_newest(queue) == queue[Len(queue)]

get_nowait(queue) == Head(queue)

InitUI ==
    /\ ui = NoNotices
    /\ parse_call = NoCall
    /\ NoThreads
    /\ NoTimers
    /\ NoMetrics
    /\ NoMonitor
    /\ InitController
    /\ d_pc = "off"
    /\ d_intent = NoIntent
    /\ d_env = [provider |-> "true", weather |-> "nokey", python |-> "py311"]
    /\ d_out = NoOut

UiStep(new) ==
    /\ ui' = new
    /\ UNCHANGED <<ctlVars, dispVars, wakeVars, wake_activations, parse_call, lock, shared, threads, timerVars, perfVars>>

\* on_log, on_status, on_intent, on_result as the window passes them to the
\* controller: `lambda msg: self._ui_queue.put((kind, msg))`, run by command
\* thread w
Notify(w) ==
    /\ ui.sent[w] < MaxNotices
    /\ UiStep([ui EXCEPT
                  !.sent[w] = @ + 1,
                  !.queue = Append(@, [kind |-> <<"status", "log", "intent", "result">>[ui.sent[w] + 1],
                                       from |-> w, n |-> ui.sent[w] + 1])])

\* Tk calls _drain_queue
DrainBegin ==
    /\ ui.drain = "scheduled"
    /\ UiStep([ui EXCEPT !.drain = "loop"])

\* one round of `while True`: get_nowait and the branch for its kind, on the
\* UI thread, where Tk runs what after() was given
DrainGet ==
    /\ ui.drain = "loop"
    /\ ui.queue # << >>
    /\ LET item == get_nowait(ui.queue)
           i == Least({k \in 1..Len(ui.queue) : ui.queue[k] = item})
       IN  UiStep([ui EXCEPT
                      \* the item returned leaves the queue
                      !.queue = SubSeq(@, 1, i - 1) \o SubSeq(@, i + 1, Len(@)),
                      !.shown = Append(@, [notice |-> item, thread |-> "ui"])])

\* get_nowait raises queue.Empty: the loop ends and after(60, ...) schedules
\* the next call
DrainEnd ==
    /\ ui.drain = "loop"
    /\ ui.queue = << >>
    /\ UiStep([ui EXCEPT !.drain = "scheduled"])

NextUI ==
    \/ \E w \in Slots : Notify(w)
    \/ DrainBegin
    \/ DrainGet
    \/ DrainEnd

SpecUI == InitUI /\ [][NextUI]_vars

\* the except clause of start(), lines 99-104
start_except_keep ==
    << [k |-> "emit", x |-> "log", v |-> FALSE, go |-> 0, c |-> "", line |-> 100],
       [k |-> "emit", x |-> "status", v |-> FALSE, go |-> 0, c |-> "", line |-> 101],
       [k |-> "ret", x |-> "False", v |-> FALSE, go |-> 0, c |-> "", line |-> 104] >>

start_except ==
    << [k |-> "emit", x |-> "log", v |-> FALSE, go |-> 0, c |-> "", line |-> 100],
       [k |-> "emit", x |-> "status", v |-> FALSE, go |-> 0, c |-> "", line |-> 101],
       [k |-> "acquire", x |-> "", v |-> FALSE, go |-> 0, c |-> "", line |-> 102],
       [k |-> "write", x |-> "_running", v |-> FALSE, go |-> 0, c |-> "", line |-> 103],
       [k |-> "release", x |-> "", v |-> FALSE, go |-> 0, c |-> "", line |-> 103],
       [k |-> "ret", x |-> "False", v |-> FALSE, go |-> 0, c |-> "", line |-> 104] >>

\* the methods of AssistantController, one step per lock operation, access
\* to a field, call of a collaborator, callback of the window, or branch.
\* k is the kind of step, x the field or the callee, c what a callee blocks
\* on, go where a failed test, a taken branch or an exception leads (0: out
\* of the method), line the line of controller.py.
Routines ==
    [
     start |->
       << [k |-> "acquire", x |-> "", v |-> FALSE, go |-> 0, c |-> "", line |-> 80],
          [k |-> "test", x |-> "_running", v |-> FALSE, go |-> 29, c |-> "", line |-> 81],
          [k |-> "write", x |-> "_running", v |-> TRUE, go |-> 0, c |-> "", line |-> 83],
          [k |-> "release", x |-> "", v |-> FALSE, go |-> 0, c |-> "", line |-> 83],
          [k |-> "emit", x |-> "status", v |-> FALSE, go |-> 0, c |-> "", line |-> 86],
          [k |-> "call", x |-> "_configure_logging", v |-> TRUE, go |-> 31, c |-> "cpu", line |-> 87],
          [k |-> "call", x |-> "CommandDispatcher", v |-> TRUE, go |-> 31, c |-> "cpu", line |-> 88],
          [k |-> "call", x |-> "IntentParser", v |-> TRUE, go |-> 31, c |-> "cpu", line |-> 89],
          [k |-> "call", x |-> "SoundDeviceSTT", v |-> TRUE, go |-> 31, c |-> "cpu", line |-> 90],
          [k |-> "call", x |-> "Transcriber.adjust_for_ambient_noise", v |-> TRUE, go |-> 31, c |-> "audio", line |-> 91],
          [k |-> "maybe", x |-> "", v |-> FALSE, go |-> 26, c |-> "", line |-> 93],
          [k |-> "test", x |-> "_wake_started", v |-> FALSE, go |-> 26, c |-> "", line |-> 270],
          [k |-> "call", x |-> "SoundDeviceWakeWord", v |-> TRUE, go |-> 31, c |-> "cpu", line |-> 272],
          [k |-> "write", x |-> "_wake", v |-> TRUE, go |-> 0, c |-> "", line |-> 272],
          [k |-> "call", x |-> "wake.add_listener", v |-> TRUE, go |-> 31, c |-> "cpu", line |-> 277],
          [k |-> "call", x |-> "wake.start", v |-> TRUE, go |-> 31, c |-> "cpu", line |-> 278],
          [k |-> "writeany", x |-> "_wake_started", v |-> FALSE, go |-> 0, c |-> "", line |-> 278],
          [k |-> "write", x |-> "_wake_enabled", v |-> TRUE, go |-> 0, c |-> "", line |-> 279],
          [k |-> "test", x |-> "_wake_started", v |-> FALSE, go |-> 24, c |-> "", line |-> 280],
          [k |-> "emit", x |-> "log", v |-> FALSE, go |-> 0, c |-> "", line |-> 281],
          [k |-> "emit", x |-> "status", v |-> FALSE, go |-> 0, c |-> "", line |-> 282],
          [k |-> "write", x |-> "_wake_enabled", v |-> FALSE, go |-> 0, c |-> "", line |-> 283],
          [k |-> "jump", x |-> "", v |-> FALSE, go |-> 26, c |-> "", line |-> 283],
          [k |-> "emit", x |-> "log", v |-> FALSE, go |-> 0, c |-> "", line |-> 285],
          [k |-> "emit", x |-> "status", v |-> FALSE, go |-> 0, c |-> "", line |-> 286],
          [k |-> "emit", x |-> "status", v |-> FALSE, go |-> 0, c |-> "", line |-> 96],
          [k |-> "emit", x |-> "log", v |-> FALSE, go |-> 0, c |-> "", line |-> 97],
          [k |-> "ret", x |-> "True", v |-> FALSE, go |-> 0, c |-> "", line |-> 98],
          [k |-> "release", x |-> "", v |-> FALSE, go |-> 0, c |-> "", line |-> 82],
          [k |-> "ret", x |-> "True", v |-> FALSE, go |-> 0, c |-> "", line |-> 82] >> \o start_except,
     stop |->
       << [k |-> "acquire", x |-> "", v |-> FALSE, go |-> 0, c |-> "", line |-> 107],
          [k |-> "test", x |-> "_running", v |-> TRUE, go |-> 12, c |-> "", line |-> 108],
          [k |-> "write", x |-> "_running", v |-> FALSE, go |-> 0, c |-> "", line |-> 110],
          [k |-> "release", x |-> "", v |-> FALSE, go |-> 0, c |-> "", line |-> 110],
          [k |-> "test", x |-> "_wake", v |-> TRUE, go |-> 7, c |-> "", line |-> 113],
          [k |-> "call", x |-> "wake.stop", v |-> FALSE, go |-> 10, c |-> "cpu", line |-> 114],
          [k |-> "emit", x |-> "status", v |-> FALSE, go |-> 0, c |-> "", line |-> 115],
          [k |-> "emit", x |-> "log", v |-> FALSE, go |-> 0, c |-> "", line |-> 116],
          [k |-> "ret", x |-> "None", v |-> FALSE, go |-> 0, c |-> "", line |-> 116],
          [k |-> "emit", x |-> "log", v |-> FALSE, go |-> 0, c |-> "", line |-> 118],
          [k |-> "ret", x |-> "None", v |-> FALSE, go |-> 0, c |-> "", line |-> 118],
          [k |-> "release", x |-> "", v |-> FALSE, go |-> 0, c |-> "", line |-> 109],
          [k |-> "ret", x |-> "None", v |-> FALSE, go |-> 0, c |-> "", line |-> 109] >>,
     run_text_command |->
       << [k |-> "spawn", x |-> "process_text", v |-> FALSE, go |-> 0, c |-> "", line |-> 123],
          [k |-> "ret", x |-> "None", v |-> FALSE, go |-> 0, c |-> "", line |-> 123] >>,
     run_voice_command |->
       << [k |-> "spawn", x |-> "process_voice", v |-> FALSE, go |-> 0, c |-> "", line |-> 126],
          [k |-> "ret", x |-> "None", v |-> FALSE, go |-> 0, c |-> "", line |-> 126] >>,
     set_wake_word_enabled_on |->
       << [k |-> "acquire", x |-> "", v |-> FALSE, go |-> 0, c |-> "", line |-> 262],
          [k |-> "write", x |-> "_wake_enabled", v |-> TRUE, go |-> 0, c |-> "", line |-> 263],
          [k |-> "release", x |-> "", v |-> FALSE, go |-> 0, c |-> "", line |-> 263],
          [k |-> "test", x |-> "_wake_started", v |-> FALSE, go |-> 18, c |-> "", line |-> 270],
          [k |-> "call", x |-> "SoundDeviceWakeWord", v |-> TRUE, go |-> 0, c |-> "cpu", line |-> 272],
          [k |-> "write", x |-> "_wake", v |-> TRUE, go |-> 0, c |-> "", line |-> 272],
          [k |-> "call", x |-> "wake.add_listener", v |-> TRUE, go |-> 0, c |-> "cpu", line |-> 277],
          [k |-> "call", x |-> "wake.start", v |-> TRUE, go |-> 0, c |-> "cpu", line |-> 278],
          [k |-> "writeany", x |-> "_wake_started", v |-> FALSE, go |-> 0, c |-> "", line |-> 278],
          [k |-> "write", x |-> "_wake_enabled", v |-> TRUE, go |-> 0, c |-> "", line |-> 279],
          [k |-> "test", x |-> "_wake_started", v |-> FALSE, go |-> 16, c |-> "", line |-> 280],
          [k |-> "emit", x |-> "log", v |-> FALSE, go |-> 0, c |-> "", line |-> 281],
          [k |-> "emit", x |-> "status", v |-> FALSE, go |-> 0, c |-> "", line |-> 282],
          [k |-> "write", x |-> "_wake_enabled", v |-> FALSE, go |-> 0, c |-> "", line |-> 283],
          [k |-> "jump", x |-> "", v |-> FALSE, go |-> 18, c |-> "", line |-> 283],
          [k |-> "emit", x |-> "log", v |-> FALSE, go |-> 0, c |-> "", line |-> 285],
          [k |-> "emit", x |-> "status", v |-> FALSE, go |-> 0, c |-> "", line |-> 286],
          [k |-> "ret", x |-> "None", v |-> FALSE, go |-> 0, c |-> "", line |-> 265] >>,
     set_wake_word_enabled_off |->
       << [k |-> "acquire", x |-> "", v |-> FALSE, go |-> 0, c |-> "", line |-> 262],
          [k |-> "write", x |-> "_wake_enabled", v |-> FALSE, go |-> 0, c |-> "", line |-> 263],
          [k |-> "release", x |-> "", v |-> FALSE, go |-> 0, c |-> "", line |-> 263],
          [k |-> "test", x |-> "_wake", v |-> TRUE, go |-> 11, c |-> "", line |-> 289],
          [k |-> "test", x |-> "_wake_started", v |-> TRUE, go |-> 11, c |-> "", line |-> 289],
          [k |-> "call", x |-> "wake.stop", v |-> FALSE, go |-> 0, c |-> "cpu", line |-> 290],
          [k |-> "write", x |-> "_wake_started", v |-> FALSE, go |-> 0, c |-> "", line |-> 291],
          [k |-> "write", x |-> "_wake_enabled", v |-> FALSE, go |-> 0, c |-> "", line |-> 292],
          [k |-> "emit", x |-> "log", v |-> FALSE, go |-> 0, c |-> "", line |-> 293],
          [k |-> "emit", x |-> "status", v |-> FALSE, go |-> 0, c |-> "", line |-> 294],
          [k |-> "ret", x |-> "None", v |-> FALSE, go |-> 0, c |-> "", line |-> 267] >>,
     process_text |->
       << [k |-> "acquire", x |-> "", v |-> FALSE, go |-> 0, c |-> "", line |-> 76],
          [k |-> "test", x |-> "_running", v |-> TRUE, go |-> 30, c |-> "", line |-> 77],
          [k |-> "release", x |-> "", v |-> FALSE, go |-> 0, c |-> "", line |-> 77],
          [k |-> "emit", x |-> "status", v |-> FALSE, go |-> 0, c |-> "", line |-> 139],
          [k |-> "emit", x |-> "log", v |-> FALSE, go |-> 0, c |-> "", line |-> 140],
          [k |-> "touch", x |-> "_history", v |-> FALSE, go |-> 0, c |-> "", line |-> 142],
          [k |-> "call", x |-> "IntentParser.parse", v |-> TRUE, go |-> 27, c |-> "cpu", line |-> 144],
          [k |-> "maybe", x |-> "", v |-> FALSE, go |-> 17, c |-> "", line |-> 146],
          [k |-> "emit", x |-> "intent", v |-> FALSE, go |-> 0, c |-> "", line |-> 147],
          [k |-> "call", x |-> "ActionProvider (CommandDispatcher.dispatch)", v |-> TRUE, go |-> 27, c |-> "provider", line |-> 150],
          [k |-> "emit", x |-> "result", v |-> FALSE, go |-> 0, c |-> "", line |-> 154],
          [k |-> "maybe", x |-> "", v |-> FALSE, go |-> 28, c |-> "", line |-> 156],
          [k |-> "touch", x |-> "_history", v |-> FALSE, go |-> 0, c |-> "", line |-> 157],
          [k |-> "emit", x |-> "log", v |-> FALSE, go |-> 0, c |-> "", line |-> 158],
          [k |-> "call", x |-> "tts.speak", v |-> TRUE, go |-> 27, c |-> "cpu", line |-> 160],
          [k |-> "jump", x |-> "", v |-> FALSE, go |-> 28, c |-> "", line |-> 161],
          [k |-> "maybe", x |-> "", v |-> FALSE, go |-> 28, c |-> "", line |-> 164],
          [k |-> "touch", x |-> "_history", v |-> FALSE, go |-> 0, c |-> "", line |-> 203],
          [k |-> "call", x |-> "Chat (LocalLLMClient.chat)", v |-> TRUE, go |-> 25, c |-> "network", line |-> 216],
          [k |-> "maybe", x |-> "", v |-> FALSE, go |-> 28, c |-> "", line |-> 177],
          [k |-> "touch", x |-> "_history", v |-> FALSE, go |-> 0, c |-> "", line |-> 178],
          [k |-> "emit", x |-> "log", v |-> FALSE, go |-> 0, c |-> "", line |-> 179],
          [k |-> "call", x |-> "tts.speak", v |-> TRUE, go |-> 27, c |-> "cpu", line |-> 181],
          [k |-> "jump", x |-> "", v |-> FALSE, go |-> 28, c |-> "", line |-> 181],
          [k |-> "emit", x |-> "log", v |-> FALSE, go |-> 0, c |-> "", line |-> 171],
          [k |-> "jump", x |-> "", v |-> FALSE, go |-> 28, c |-> "", line |-> 175],
          [k |-> "emit", x |-> "log", v |-> FALSE, go |-> 0, c |-> "", line |-> 189],
          [k |-> "emit", x |-> "status", v |-> FALSE, go |-> 0, c |-> "", line |-> 191],
          [k |-> "jump", x |-> "", v |-> FALSE, go |-> 32, c |-> "", line |-> 191],
          [k |-> "release", x |-> "", v |-> FALSE, go |-> 0, c |-> "", line |-> 77],
          [k |-> "jump", x |-> "", v |-> FALSE, go |-> 32, c |-> "", line |-> 138],
          [k |-> "ret", x |-> "None", v |-> FALSE, go |-> 0, c |-> "", line |-> 191] >>,
     process_voice |->
       << [k |-> "acquire", x |-> "", v |-> FALSE, go |-> 0, c |-> "", line |-> 76],
          [k |-> "test", x |-> "_running", v |-> TRUE, go |-> 56, c |-> "", line |-> 77],
          [k |-> "release", x |-> "", v |-> FALSE, go |-> 0, c |-> "", line |-> 77],
          [k |-> "maybe", x |-> "", v |-> FALSE, go |-> 54, c |-> "", line |-> 221],
          [k |-> "emit", x |-> "status", v |-> FALSE, go |-> 0, c |-> "", line |-> 227],
          [k |-> "emit", x |-> "log", v |-> FALSE, go |-> 0, c |-> "", line |-> 228],
          [k |-> "call", x |-> "Transcriber.listen_once", v |-> TRUE, go |-> 45, c |-> "audio", line |-> 233],
          [k |-> "maybe", x |-> "", v |-> FALSE, go |-> 14, c |-> "", line |-> 234],
          [k |-> "maybe", x |-> "", v |-> FALSE, go |-> 12, c |-> "", line |-> 237],
          [k |-> "emit", x |-> "log", v |-> FALSE, go |-> 0, c |-> "", line |-> 238],
          [k |-> "jump", x |-> "", v |-> FALSE, go |-> 7, c |-> "", line |-> 232],
          [k |-> "emit", x |-> "log", v |-> FALSE, go |-> 0, c |-> "", line |-> 249],
          [k |-> "jump", x |-> "", v |-> FALSE, go |-> 46, c |-> "", line |-> 250],
          [k |-> "acquire", x |-> "", v |-> FALSE, go |-> 0, c |-> "", line |-> 76],
          [k |-> "test", x |-> "_running", v |-> TRUE, go |-> 43, c |-> "", line |-> 77],
          [k |-> "release", x |-> "", v |-> FALSE, go |-> 0, c |-> "", line |-> 77],
          [k |-> "emit", x |-> "status", v |-> FALSE, go |-> 0, c |-> "", line |-> 139],
          [k |-> "emit", x |-> "log", v |-> FALSE, go |-> 0, c |-> "", line |-> 140],
          [k |-> "touch", x |-> "_history", v |-> FALSE, go |-> 0, c |-> "", line |-> 142],
          [k |-> "call", x |-> "IntentParser.parse", v |-> TRUE, go |-> 40, c |-> "cpu", line |-> 144],
          [k |-> "maybe", x |-> "", v |-> FALSE, go |-> 30, c |-> "", line |-> 146],
          [k |-> "emit", x |-> "intent", v |-> FALSE, go |-> 0, c |-> "", line |-> 147],
          [k |-> "call", x |-> "ActionProvider (CommandDispatcher.dispatch)", v |-> TRUE, go |-> 40, c |-> "provider", line |-> 150],
          [k |-> "emit", x |-> "result", v |-> FALSE, go |-> 0, c |-> "", line |-> 154],
          [k |-> "maybe", x |-> "", v |-> FALSE, go |-> 41, c |-> "", line |-> 156],
          [k |-> "touch", x |-> "_history", v |-> FALSE, go |-> 0, c |-> "", line |-> 157],
          [k |-> "emit", x |-> "log", v |-> FALSE, go |-> 0, c |-> "", line |-> 158],
          [k |-> "call", x |-> "tts.speak", v |-> TRUE, go |-> 40, c |-> "cpu", line |-> 160],
          [k |-> "jump", x |-> "", v |-> FALSE, go |-> 41, c |-> "", line |-> 161],
          [k |-> "maybe", x |-> "", v |-> FALSE, go |-> 41, c |-> "", line |-> 164],
          [k |-> "touch", x |-> "_history", v |-> FALSE, go |-> 0, c |-> "", line |-> 203],
          [k |-> "call", x |-> "Chat (LocalLLMClient.chat)", v |-> TRUE, go |-> 38, c |-> "network", line |-> 216],
          [k |-> "maybe", x |-> "", v |-> FALSE, go |-> 41, c |-> "", line |-> 177],
          [k |-> "touch", x |-> "_history", v |-> FALSE, go |-> 0, c |-> "", line |-> 178],
          [k |-> "emit", x |-> "log", v |-> FALSE, go |-> 0, c |-> "", line |-> 179],
          [k |-> "call", x |-> "tts.speak", v |-> TRUE, go |-> 40, c |-> "cpu", line |-> 181],
          [k |-> "jump", x |-> "", v |-> FALSE, go |-> 41, c |-> "", line |-> 181],
          [k |-> "emit", x |-> "log", v |-> FALSE, go |-> 0, c |-> "", line |-> 171],
          [k |-> "jump", x |-> "", v |-> FALSE, go |-> 41, c |-> "", line |-> 175],
          [k |-> "emit", x |-> "log", v |-> FALSE, go |-> 0, c |-> "", line |-> 189],
          [k |-> "emit", x |-> "status", v |-> FALSE, go |-> 0, c |-> "", line |-> 191],
          [k |-> "jump", x |-> "", v |-> FALSE, go |-> 46, c |-> "", line |-> 191],
          [k |-> "release", x |-> "", v |-> FALSE, go |-> 0, c |-> "", line |-> 77],
          [k |-> "jump", x |-> "", v |-> FALSE, go |-> 46, c |-> "", line |-> 138],
          [k |-> "emit", x |-> "log", v |-> FALSE, go |-> 0, c |-> "", line |-> 253],
          [k |-> "call", x |-> "time.sleep", v |-> FALSE, go |-> 0, c |-> "cpu", line |-> 256],
          [k |-> "acquire", x |-> "", v |-> FALSE, go |-> 0, c |-> "", line |-> 76],
          [k |-> "test", x |-> "_running", v |-> TRUE, go |-> 52, c |-> "", line |-> 77],
          [k |-> "release", x |-> "", v |-> FALSE, go |-> 0, c |-> "", line |-> 77],
          [k |-> "emit", x |-> "status", v |-> FALSE, go |-> 0, c |-> "", line |-> 258],
          [k |-> "ret", x |-> "None", v |-> FALSE, go |-> 0, c |-> "", line |-> 258],
          [k |-> "release", x |-> "", v |-> FALSE, go |-> 0, c |-> "", line |-> 77],
          [k |-> "ret", x |-> "None", v |-> FALSE, go |-> 0, c |-> "", line |-> 257],
          [k |-> "emit", x |-> "log", v |-> FALSE, go |-> 0, c |-> "", line |-> 222],
          [k |-> "ret", x |-> "None", v |-> FALSE, go |-> 0, c |-> "", line |-> 223],
          [k |-> "release", x |-> "", v |-> FALSE, go |-> 0, c |-> "", line |-> 77],
          [k |-> "ret", x |-> "None", v |-> FALSE, go |-> 0, c |-> "", line |-> 220] >>,
     on_wake_word |->
       << [k |-> "acquire", x |-> "", v |-> FALSE, go |-> 0, c |-> "", line |-> 76],
          [k |-> "test", x |-> "_running", v |-> TRUE, go |-> 8, c |-> "", line |-> 77],
          [k |-> "release", x |-> "", v |-> FALSE, go |-> 0, c |-> "", line |-> 77],
          [k |-> "emit", x |-> "log", v |-> FALSE, go |-> 0, c |-> "", line |-> 131],
          [k |-> "call", x |-> "tts.speak", v |-> TRUE, go |-> 0, c |-> "cpu", line |-> 133],
          [k |-> "spawn", x |-> "process_voice", v |-> FALSE, go |-> 0, c |-> "", line |-> 126],
          [k |-> "ret", x |-> "None", v |-> FALSE, go |-> 0, c |-> "", line |-> 134],
          [k |-> "release", x |-> "", v |-> FALSE, go |-> 0, c |-> "", line |-> 77],
          [k |-> "ret", x |-> "None", v |-> FALSE, go |-> 0, c |-> "", line |-> 130] >> ]


(***************************************************************************)
(* The controller's threads, lock and shared fields: the thread of the     *)
(* window, which calls start(), stop(), run_text_command(),                *)
(* run_voice_command() and set_wake_word_enabled(); the monitor's loop     *)
(* thread, which calls _on_wake_word; and the command threads.  Each       *)
(* thread walks through the steps of its method in Routines.               *)
(***************************************************************************)
\* the step thread t is at
Cur(t) == Routines[threads[t].routine][threads[t].pc]

At(t, kinds) == threads[t].pc # 0 /\ Cur(t).k \in kinds

\* what the steps of the methods leave alone, and the collaborators that
\* start() and _start_wake_word create: _dispatcher, _parser, _stt and whether
\* the monitor self._wake is running
otherVars ==
    <<running, llm, history, ui_pc, workers, commands, chatStarted, connFailed,
      unreachableNotices, dispVars, wake_variant, threshold, state, listeners,
      added, detection_thread, audio_buffer, loops, caller_pc, stopped, chunks,
      wake_activations, parse_call, ui, timerVars, perfVars>>

\* thread t has made its step and is at step pc of its method
Moved(ths, t, pc, emitted, calls) ==
    [ths EXCEPT ![t].pc = pc,
                ![t].emitted = @ \/ (emitted /\ Role(t) = "caller"),
                ![t].calls = @ \/ (calls /\ Role(t) = "caller")]

Done(t, pc, emitted, calls) ==
    /\ threads' = Moved(threads, t, pc, emitted, calls)
    /\ UNCHANGED <<otherVars, dispatcher, parser, stt, is_running>>

\* thread t enters a method
Enter(ths, t, routine) ==
    [ths EXCEPT ![t] = [IdleThread EXCEPT
                           !.routine = routine, !.pc = 1,
                           !.entry = IF Role(t) = "caller" THEN shared ELSE @]]

\* thread t, the window's or another caller's, calls a public method
Invoke(t, routine) ==
    /\ Role(t) \in {"caller", "second"}
    /\ threads[t].pc = 0
    /\ threads' = Enter(threads, t, routine)
    /\ UNCHANGED <<lock, shared, otherVars, dispatcher, parser, stt, is_running>>

\* the loop thread of the running monitor has a chunk with a wake word in
\* hand and calls its listener, _on_wake_word.  SoundDeviceWakeWord.stop()
\* waits for that thread for 2 seconds at most (join(timeout=2.0)), so the
\* steps of the call may follow the return of stop().
WakeEvent ==
    /\ threads[2].pc = 0
    /\ is_running
    /\ threads' = Enter(threads, 2, "on_wake_word")
    /\ UNCHANGED <<lock, shared, otherVars, dispatcher, parser, stt, is_running>>

\* `with self._lock:` entered
Acquire(t) ==
    /\ At(t, {"acquire"})
    /\ lock = 0
    /\ lock' = t
    /\ shared' = shared
    /\ Done(t, threads[t].pc + 1, FALSE, FALSE)

\* `with self._lock:` left
Release(t) ==
    /\ At(t, {"release"})
    /\ lock' = 0
    /\ shared' = shared
    /\ Done(t, threads[t].pc + 1, FALSE, FALSE)

\* a read of a field in a condition: on when it has the value, else to go
ReadField(t) ==
    /\ At(t, {"test"})
    /\ UNCHANGED <<lock, shared>>
    /\ Done(t, IF shared[Cur(t).x] = Cur(t).v THEN threads[t].pc + 1 ELSE Cur(t).go,
            FALSE, FALSE)

\* an assignment to a field; b is the constant of the right-hand side, or
\* what self._wake.start() returned (line 278)
WriteField(t, b) ==
    /\ At(t, {"write", "writeany"})
    /\ b = IF Cur(t).k = "write" THEN Cur(t).v ELSE threads[t].got
    /\ shared' = [shared EXCEPT ![Cur(t).x] = b]
    /\ lock' = lock
    /\ Done(t, threads[t].pc + 1, FALSE, FALSE)

\* _history.append(...) and _history[-8:]
TouchHistory(t) ==
    /\ At(t, {"touch"})
    /\ UNCHANGED <<lock, shared>>
    /\ Done(t, threads[t].pc + 1, FALSE, FALSE)

\* a call of a collaborator: it returns (b is what it returned, for the calls
\* whose value the method uses), or it raises and control goes to the except
\* clause around it, or out of the method when there is none.  The
\* constructors of lines 88-90 and 272 leave their object in the field;
\* SoundDeviceWakeWord.start() returns whether the monitor runs, stop() clears
\* is_running (nothing in it raises: v is FALSE for it).
CallOut(t, raised, b) ==
    /\ At(t, {"call"})
    /\ raised => Cur(t).v
    /\ Cur(t).x # "wake.start" \/ raised => b
    /\ UNCHANGED <<lock, shared, otherVars>>
    /\ dispatcher' = (dispatcher \/ (Cur(t).x = "CommandDispatcher" /\ ~raised))
    /\ parser' = (parser \/ (Cur(t).x = "IntentParser" /\ ~raised))
    /\ stt' = (stt \/ (Cur(t).x = "SoundDeviceSTT" /\ ~raised))
    /\ is_running' = IF raised THEN is_running
                     ELSE IF Cur(t).x = "wake.stop" THEN FALSE
                     ELSE IF Cur(t).x = "SoundDeviceWakeWord" THEN FALSE
                     ELSE IF Cur(t).x = "wake.start" THEN b
                     ELSE is_running
    /\ threads' =
          IF raised /\ Cur(t).go = 0
          THEN [threads EXCEPT ![t] = IF Role(t) = "caller"
                                      THEN [@ EXCEPT !.pc = 0, !.ret = "raised"]
                                      ELSE IdleThread]
          ELSE [Moved(threads, t, IF raised THEN Cur(t).go ELSE threads[t].pc + 1,
                      FALSE, TRUE)
                  EXCEPT ![t].got = IF Cur(t).x = "wake.start" THEN b /\ ~raised
                                    ELSE @]

\* on_log, on_status, on_intent or on_result
Emit(t) ==
    /\ At(t, {"emit"})
    /\ UNCHANGED <<lock, shared>>
    /\ Done(t, threads[t].pc + 1, TRUE, FALSE)

\* a condition on a setting or on a local value; a jump
Branch(t, taken) ==
    /\ At(t, {"maybe", "jump"})
    /\ Cur(t).k = "jump" => taken
    /\ UNCHANGED <<lock, shared>>
    /\ Done(t, IF taken THEN Cur(t).go ELSE threads[t].pc + 1, FALSE, FALSE)

\* threading.Thread(target=...).start(): command thread w begins
StartThread(t, w) ==
    /\ At(t, {"spawn"})
    /\ Role(w) = "worker"
    /\ threads[w].pc = 0
    /\ \A v \in ThreadIds : Role(v) = "worker" /\ threads[v].pc = 0 => w <= v
    /\ threads' = [Enter(threads, w, Cur(t).x) EXCEPT ![t].pc = threads[t].pc + 1]
    /\ UNCHANGED <<lock, shared, otherVars, dispatcher, parser, stt, is_running>>

\* return; a command thread ends with it
Return(t) ==
    /\ At(t, {"ret"})
    /\ threads' = [threads EXCEPT ![t] = IF Role(t) = "caller"
                                         THEN [@ EXCEPT !.pc = 0, !.ret = Cur(t).x]
                                         ELSE IdleThread]
    /\ UNCHANGED <<lock, shared, otherVars, dispatcher, parser, stt, is_running>>

InitThreads ==
    /\ NoThreads
    /\ NoTimers
    /\ NoMetrics
    /\ parse_call = NoCall
    /\ ui = NoNotices
    /\ NoMonitor
    /\ InitController
    /\ d_pc = "off"
    /\ d_intent = NoIntent
    /\ d_env = [provider |-> "true", weather |-> "nokey", python |-> "py311"]
    /\ d_out = NoOut

NextThreads ==
    \/ \E routine \in {"start", "stop", "run_text_command", "run_voice_command",
                       "set_wake_word_enabled_on", "set_wake_word_enabled_off"} :
           Invoke(1, routine)
    \/ WakeEvent
    \/ \E t \in ThreadIds : Acquire(t)
    \/ \E t \in ThreadIds : Release(t)
    \/ \E t \in ThreadIds : ReadField(t)
    \/ \E t \in ThreadIds : \E b \in BOOLEAN : WriteField(t, b)
    \/ \E t \in ThreadIds : TouchHistory(t)
    \/ \E t \in ThreadIds : \E raised, b \in BOOLEAN : CallOut(t, raised, b)
    \/ \E t \in ThreadIds : Emit(t)
    \/ \E t \in ThreadIds : \E taken \in BOOLEAN : Branch(t, taken)
    \/ \E t, w \in ThreadIds : StartThread(t, w)
    \/ \E t \in ThreadIds : Return(t)

SpecThreads == InitThreads /\ [][NextThreads]_vars

\* two threads that call start() on one controller
NextStarts ==
    \/ \E t \in {1, 3} : Invoke(t, "start")
    \/ \E t \in ThreadIds : Acquire(t)
    \/ \E t \in ThreadIds : Release(t)
    \/ \E t \in ThreadIds : ReadField(t)
    \/ \E t \in ThreadIds : \E b \in BOOLEAN : WriteField(t, b)
    \/ \E t \in ThreadIds : \E raised, b \in BOOLEAN : CallOut(t, raised, b)
    \/ \E t \in ThreadIds : Emit(t)
    \/ \E t \in ThreadIds : \E taken \in BOOLEAN : Branch(t, taken)
    \/ \E t \in ThreadIds : Return(t)

SpecStarts == InitThreads /\ [][NextStarts]_vars

\* the default wake words of SoundDeviceWakeWord and of WakeWordDetector
WW ==
    [hey_assistant |-> <<"h","e","y"," ","a","s","s","i","s","t","a","n","t">>,
     computer |-> <<"c","o","m","p","u","t","e","r">>,
     wake_up |-> <<"w","a","k","e"," ","u","p">>]

\* what the recognizer makes of a captured chunk
CH ==
    [hey_open_chrome |-> <<"H","e","y"," ","A","s","s","i","s","t","a","n","t"," ","o",
          "p","e","n"," ","c","h","r","o","m","e">>,
     wake_up_computer |-> <<"W","a","k","e"," ","u","p",","," ","c","o","m","p","u","t",
          "e","r">>,
     hello |-> <<"h","e","l","l","o"," ","t","h","e","r","e">>]

(***************************************************************************)
(* The wake-word monitor: SoundDeviceWakeWord                              *)
(* (wake_word/detector_sounddevice.py), which the controller uses, and     *)
(* WakeWordDetector (wake_word/listener.py).  One monitor object, the      *)
(* thread that calls start(), stop(), add_listener() and                   *)
(* remove_listener(), and the loop threads that start() creates.  A loop   *)
(* thread takes one step per shared read or write, so that the writes of   *)
(* stop() fall between the steps of an iteration.                          *)
(***************************************************************************)
\* threads that start() can create on one monitor
MaxLoops == 2

\* audio chunks captured on one monitor
MaxChunks == 2

\* callbacks registered at one time
MaxListeners == 2

LoopIds == 1..MaxLoops

\* wake_words of both classes when none are configured
wake_words == <<WW.hey_assistant, WW.computer, WW.wake_up>>

\* confidence_threshold of WakeWordConfig, in hundredths
confidence_threshold == 70

\* confidence of every WakeWordEvent of SoundDeviceWakeWord, in hundredths
event_confidence == 80

\* max_buffer_size of _audio_callback: int(2.0 * 16000 / 1024)
max_buffer_size == 31

\* the callbacks a program registers: one that returns, one that raises, one
\* that unregisters itself when it is called, and a callable object without
\* a __name__ (a functools.partial, a Mock, an instance with __call__) that
\* raises
Callbacks ==
    [on_event |-> [raises |-> FALSE, named |-> TRUE],
     failing_callback |-> [raises |-> TRUE, named |-> TRUE],
     once |-> [raises |-> FALSE, named |-> TRUE],
     handler_obj |-> [raises |-> TRUE, named |-> FALSE]]

\* what recognize_google makes of a chunk: a text, or one of its exceptions
Recognitions ==
    {[kind |-> "text", text |-> CH.hey_open_chrome],
     [kind |-> "text", text |-> CH.wake_up_computer],
     [kind |-> "text", text |-> CH.hello],
     [kind |-> "UnknownValueError", text |-> << >>],
     [kind |-> "RequestError", text |-> << >>]}

\* mean absolute amplitude of the buffered audio (listener.py)
Energies == {800, 1200, 1400, 2400}

\* the wake words, by position, that text_lower contains
WakeHits(text_lower) ==
    {i \in 1..Len(wake_words) : Contains(lower(wake_words[i]), text_lower)}

\* as _check_for_wake_word, but the loop of line 209 runs to its end and the
\* last wake word found is returned
check_for_wake_word_last(heard) ==
    IF heard.kind # "text" THEN << >>
    ELSE IF WakeHits(strip(lower(heard.text))) = {} THEN << >>
    ELSE wake_words[CHOOSE i \in WakeHits(strip(lower(heard.text))) :
                       \A j \in WakeHits(strip(lower(heard.text))) : j <= i]

\* _check_for_wake_word: the first configured wake word that the lowered text
\* contains; << >> stands for None, and for a failed recognition
check_for_wake_word(heard) ==
    IF heard.kind # "text" THEN << >>
    ELSE IF WakeHits(strip(lower(heard.text))) = {} THEN << >>
    ELSE wake_words[Least(WakeHits(strip(lower(heard.text))))]

\* _detect_wake_word: the first wake word, with min(0.9, energy / 2000) in
\* hundredths, when the energy is above 1000
detect_wake_word(energy) ==
    IF energy > 1000 /\ Len(wake_words) > 0
    THEN [word |-> wake_words[1],
          confidence |-> IF energy \div 20 < 90 THEN energy \div 20 ELSE 90]
    ELSE [word |-> << >>, confidence |-> 0]

\* a thread that start() has not created yet
UnbornLoop ==
    [pc |-> "unborn",       \* where the thread is in the loop
     heard |-> [kind |-> "none", text |-> << >>],   \* what the chunk of this iteration held
     wake_word |-> << >>,   \* wake_word of the event of this iteration
     confidence |-> 0,      \* confidence of that event, in hundredths
     events |-> 0,          \* events made from the chunk of this iteration
     idx |-> 0,             \* the list iterator of _notify_listeners
     snapshot |-> << >>,    \* listeners when the notification began
     called |-> << >>,      \* the callbacks called with the event
     mutated |-> FALSE,     \* listeners changed during the notification
     escaped |-> FALSE,     \* an exception left _notify_listeners
     raised |-> "none",     \* what raised an exception in this iteration
     error_set |-> FALSE]   \* this iteration wrote DetectionState.ERROR

\* get_status()
get_status == [state |-> state, is_running |-> is_running,
               listeners_count |-> Len(listeners)]

\* the threads inside _notify_listeners see the list change under them
MarkMutated(ls) ==
    [l \in LoopIds |->
        IF ls[l].pc = "notify" THEN [ls[l] EXCEPT !.mutated = TRUE] ELSE ls[l]]

\* __init__ of either class, and then add_listener for each of registered
Constructed(registered) ==
    /\ wake_variant \in {"sounddevice", "listener"}
    /\ threshold \in {60, confidence_threshold, 90}
    /\ is_running = FALSE
    /\ state = "idle"
    /\ listeners = registered
    /\ added = {registered[i] : i \in 1..Len(registered)}
    /\ detection_thread = 0
    /\ audio_buffer = 0
    /\ loops = [l \in LoopIds |-> UnbornLoop]
    /\ caller_pc = "idle"
    /\ stopped = FALSE
    /\ chunks = 0
    /\ wake_activations = 0
    /\ NoSide
    /\ InitController
    /\ d_pc = "off"
    /\ d_intent = NoIntent
    /\ d_env = [provider |-> "true", weather |-> "nokey", python |-> "py311"]
    /\ d_out = NoOut

\* a monitor not started yet with its callbacks registered, as
\* _start_wake_word registers _on_wake_word before it calls start()
InitWake ==
    \E registered \in {<<"on_event">>, <<"failing_callback", "on_event">>} :
        Constructed(registered)

\* a monitor just constructed
InitListeners == Constructed(<< >>)

pipeVars == <<ctlVars, dispVars, wake_activations, sideVars>>

\* start(): nothing to do on a running monitor; otherwise is_running, state
\* and a new thread
WakeStart ==
    /\ caller_pc = "idle"
    /\ IF is_running
       THEN UNCHANGED <<is_running, state, detection_thread, loops, stopped>>
       ELSE /\ \E l \in LoopIds : loops[l].pc = "unborn"
            /\ LET l == Least({k \in LoopIds : loops[k].pc = "unborn"})
               IN  /\ loops' = [loops EXCEPT ![l].pc = "test"]
                   /\ detection_thread' = l
            /\ is_running' = TRUE
            /\ state' = "listening"
            /\ stopped' = FALSE
    /\ UNCHANGED <<wake_variant, threshold, listeners, added, audio_buffer, caller_pc, chunks,
                   pipeVars>>

\* start() of WakeWordDetector when _initialize_audio raises (no input
\* device): lines 166-169
WakeStartFail ==
    /\ caller_pc = "idle"
    /\ wake_variant = "listener"
    /\ ~is_running
    /\ state' = "error"
    /\ stopped' = FALSE
    /\ UNCHANGED <<wake_variant, threshold, is_running, listeners, added, detection_thread,
                   audio_buffer, loops, caller_pc, chunks, pipeVars>>

\* stop(), the two writes; the caller then waits in join(timeout=2.0)
WakeStopBegin ==
    /\ caller_pc = "idle"
    /\ is_running' = FALSE
    /\ state' = "idle"
    /\ caller_pc' = "stopping"
    /\ UNCHANGED <<wake_variant, threshold, listeners, added, detection_thread, audio_buffer,
                   loops, stopped, chunks, pipeVars>>

\* stop() returns: there is no thread or it has ended, or join() has timed
\* out.  It can time out while the thread is in a call that can last longer
\* than the two seconds of join(): the capture of a chunk of
\* chunk_duration = 2.0 seconds, the recognition request, a callback, the
\* pause of one second after a detection
WakeStopReturn ==
    /\ caller_pc = "stopping"
    /\ IF detection_thread = 0 THEN TRUE
       ELSE IF loops[detection_thread].pc = "exited" THEN TRUE
       ELSE IF wake_variant = "sounddevice"
       THEN loops[detection_thread].pc \in {"rec", "check", "notify", "resume"}
       ELSE loops[detection_thread].pc = "notify"
    /\ caller_pc' = "idle"
    /\ stopped' = TRUE
    /\ UNCHANGED <<wake_variant, threshold, is_running, state, listeners, added,
                   detection_thread, audio_buffer, loops, chunks, pipeVars>>

\* add_listener(cb), from any thread but the loop's: nothing for a callback
\* that is in the list.  (WakeWordDetector then formats callback.__name__ for
\* its log, line 128: for a callable without one that raises, after the
\* append.)
add_listener_always(list, cb) == Append(list, cb)

add_listener(list, cb) ==
    IF \E k \in 1..Len(list) : list[k] = cb THEN list ELSE Append(list, cb)

AddListener(cb) ==
    /\ Len(add_listener(listeners, cb)) <= MaxListeners
    /\ listeners' = add_listener(listeners, cb)
    /\ added' = added \cup {cb}
    /\ loops' = IF listeners' # listeners THEN MarkMutated(loops) ELSE loops
    /\ UNCHANGED <<wake_variant, threshold, is_running, state, detection_thread,
                   audio_buffer, caller_pc, stopped, chunks, pipeVars>>

\* remove_listener(cb), from any thread but the loop's: nothing for a
\* callback that is not in the list
remove_listener(list, cb) ==
    IF \E k \in 1..Len(list) : list[k] = cb
    THEN LET i == Least({k \in 1..Len(list) : list[k] = cb})   \* list.remove(cb)
         IN  SubSeq(list, 1, i - 1) \o SubSeq(list, i + 1, Len(list))
    ELSE list

RemoveListener(cb) ==
    /\ listeners' = remove_listener(listeners, cb)
    /\ added' = added \ {cb}
    /\ loops' = IF listeners' # listeners THEN MarkMutated(loops) ELSE loops
    /\ UNCHANGED <<wake_variant, threshold, is_running, state, detection_thread,
                   audio_buffer, caller_pc, stopped, chunks, pipeVars>>

\* _audio_callback, on the thread of the audio library: the stream of
\* WakeWordDetector is open from _initialize_audio in start() to
\* _cleanup_audio at the end of stop()
AudioCallback ==
    /\ wake_variant = "listener"
    /\ is_running \/ caller_pc = "stopping"
    /\ chunks < MaxChunks
    /\ chunks' = chunks + 1
    /\ audio_buffer' = IF audio_buffer + 1 > max_buffer_size
                       THEN max_buffer_size ELSE audio_buffer + 1
    /\ UNCHANGED <<wake_variant, threshold, is_running, state, listeners, added,
                   detection_thread, loops, caller_pc, stopped, pipeVars>>

\* a step of loop thread l that leaves it as rec
LoopStep(l, rec) ==
    /\ loops' = [loops EXCEPT ![l] = rec]
    /\ UNCHANGED <<wake_variant, threshold, is_running, detection_thread, caller_pc,
                   stopped, pipeVars>>

\* `while self.is_running:`
LoopTest(l) ==
    /\ loops[l].pc = "test"
    /\ LoopStep(l, IF is_running
                   THEN [UnbornLoop EXCEPT
                            !.pc = IF wake_variant = "sounddevice"
                                   THEN "rec" ELSE "buf"]
                   ELSE [loops[l] EXCEPT !.pc = "exited"])
    /\ UNCHANGED <<state, listeners, added, audio_buffer, chunks>>

\* sd.rec / sd.wait, then line 161; or they raise, and lines 183-186
LoopCapture(l, ok) ==
    /\ loops[l].pc = "rec"
    /\ chunks < MaxChunks
    /\ chunks' = chunks + 1
    /\ IF ok
       THEN /\ state' = "processing"
            /\ LoopStep(l, [loops[l] EXCEPT !.pc = "check"])
       ELSE /\ state' = "error"
            /\ LoopStep(l, [loops[l] EXCEPT !.pc = "test",
                                            !.raised = "capture",
                                            !.error_set = TRUE])
    /\ UNCHANGED <<listeners, added, audio_buffer>>

\* `if len(self.audio_buffer) > 0:`, then line 257; or the sleep of line 270
LoopBuffer(l) ==
    /\ loops[l].pc = "buf"
    /\ IF audio_buffer > 0
       THEN /\ state' = "processing"
            /\ LoopStep(l, [loops[l] EXCEPT !.pc = "check"])
       ELSE /\ state' = state
            /\ LoopStep(l, [loops[l] EXCEPT !.pc = "test"])
    /\ UNCHANGED <<listeners, added, audio_buffer, chunks>>

\* the notification begins: the for statement takes an iterator over listeners
BeginNotify(rec, w, c) ==
    [rec EXCEPT !.pc = "notify", !.wake_word = w, !.confidence = c,
                !.events = rec.events + 1,
                !.idx = 0, !.snapshot = listeners, !.called = << >>,
                !.mutated = FALSE, !.escaped = FALSE]

\* a failed recognition is an exception that _check_for_wake_word handles
WithHeard(rec, heard) ==
    [rec EXCEPT !.heard = heard,
                !.raised = IF heard.kind \in {"UnknownValueError", "RequestError"}
                           THEN "transcription" ELSE rec.raised]

\* _check_for_wake_word and lines 164-172 of SoundDeviceWakeWord
LoopCheck(l, heard, w) ==
    /\ loops[l].pc = "check"
    /\ wake_variant = "sounddevice"
    /\ IF w # << >>
       THEN /\ state' = "detected"
            /\ LoopStep(l, BeginNotify(WithHeard(loops[l], heard), w, event_confidence))
       ELSE /\ state' = state
            /\ LoopStep(l, [WithHeard(loops[l], heard) EXCEPT !.pc = "resume"])
    /\ UNCHANGED <<listeners, added, audio_buffer, chunks>>

\* _process_audio_chunk of WakeWordDetector up to line 303, with the test of
\* line 296; without a detection it returns False and line 268 follows
LoopProcess(l, d) ==
    /\ loops[l].pc = "check"
    /\ wake_variant = "listener"
    /\ IF d.word # << >> /\ d.confidence >= threshold
       THEN /\ state' = state
            /\ LoopStep(l, BeginNotify([loops[l] EXCEPT !.heard.kind = "audio"],
                                       d.word, d.confidence))
       ELSE /\ state' = "listening"
            /\ LoopStep(l, [loops[l] EXCEPT !.pc = "test",
                                            !.heard.kind = "audio"])
    /\ UNCHANGED <<listeners, added, audio_buffer, chunks>>

\* whether an exception leaves _notify_listeners at the call of cb: the
\* except clause of listener.py reads listener.__name__ (line 142), that of
\* detector_sounddevice.py does not (line 104)
Escapes(cb) ==
    Callbacks[cb].raises /\ wake_variant = "listener" /\ ~Callbacks[cb].named

\* the record of the thread after the call of cb
AfterCall(rec, cb) ==
    [rec EXCEPT !.idx = rec.idx + 1,
                !.called = Append(rec.called, cb),
                !.mutated = rec.mutated \/ cb = "once",
                !.raised = IF Callbacks[cb].raises THEN "listener" ELSE rec.raised,
                !.escaped = Escapes(cb),
                !.pc = IF Escapes(cb) THEN "resume" ELSE "notify"]

\* one round of `for listener in self.listeners:`: the iterator yields the
\* element at its index in the list as it is now, or ends
LoopNotify(l) ==
    /\ loops[l].pc = "notify"
    /\ IF loops[l].idx < Len(listeners)
       THEN LET cb == listeners[loops[l].idx + 1]
            IN  /\ listeners' = IF cb = "once" THEN remove_listener(listeners, cb)
                                ELSE listeners
                /\ added' = IF cb = "once" THEN added \ {cb} ELSE added
                /\ loops' = [(IF cb = "once" THEN MarkMutated(loops) ELSE loops)
                              EXCEPT ![l] = AfterCall(loops[l], cb)]
       ELSE /\ listeners' = listeners
            /\ added' = added
            /\ loops' = [loops EXCEPT ![l].pc = "resume"]
    /\ UNCHANGED <<wake_variant, threshold, is_running, state, detection_thread,
                   audio_buffer, caller_pc, stopped, chunks, pipeVars>>

\* what follows the notification.  SoundDeviceWakeWord: the pause, then line
\* 181.  WakeWordDetector: _process_audio_chunk returns True and lines
\* 264-266 follow, or the exception that left _notify_listeners is caught at
\* line 311, it returns False and line 268 follows
LoopResume(l) ==
    /\ loops[l].pc = "resume"
    /\ IF wake_variant = "sounddevice"
       THEN /\ state' = "listening"
            /\ audio_buffer' = audio_buffer
       ELSE IF loops[l].escaped
       THEN /\ state' = "listening"
            /\ audio_buffer' = audio_buffer
       ELSE /\ state' = "detected"
            /\ audio_buffer' = 0
    /\ LoopStep(l, [loops[l] EXCEPT !.pc = "test"])
    /\ UNCHANGED <<listeners, added, chunks>>

\* start(), stop() and the loop threads, with the callbacks registered before
NextWake ==
    \/ WakeStart
    \/ WakeStartFail
    \/ WakeStopBegin
    \/ WakeStopReturn
    \/ AudioCallback
    \/ \E l \in LoopIds : LoopTest(l)
    \/ \E l \in LoopIds : \E ok \in BOOLEAN : LoopCapture(l, ok)
    \/ \E l \in LoopIds : LoopBuffer(l)
    \/ \E l \in LoopIds : \E heard \in Recognitions :
           LoopCheck(l, heard, check_for_wake_word(heard))
    \/ \E l \in LoopIds : \E energy \in Energies :
           LoopProcess(l, detect_wake_word(energy))
    \/ \E l \in LoopIds : LoopNotify(l)
    \/ \E l \in LoopIds : LoopResume(l)

SpecWake == InitWake /\ [][NextWake]_vars

\* a started monitor whose callbacks are registered and unregistered while
\* its loop runs
NextListeners ==
    \/ WakeStart
    \/ \E cb \in DOMAIN Callbacks : AddListener(cb)
    \/ \E cb \in DOMAIN Callbacks : RemoveListener(cb)
    \/ AudioCallback
    \/ \E l \in LoopIds : LoopTest(l)
    \/ \E l \in LoopIds : \E ok \in BOOLEAN : LoopCapture(l, ok)
    \/ \E l \in LoopIds : LoopBuffer(l)
    \/ \E l \in LoopIds : \E heard \in Recognitions :
           LoopCheck(l, heard, check_for_wake_word(heard))
    \/ \E l \in LoopIds : \E energy \in Energies :
           LoopProcess(l, detect_wake_word(energy))
    \/ \E l \in LoopIds : LoopNotify(l)
    \/ \E l \in LoopIds : LoopResume(l)

SpecListeners == InitListeners /\ [][NextListeners]_vars


(***************************************************************************)
(* The timers of src/actions/timer.py: the Timer objects, the thread each  *)
(* one starts, and the TimerManager's dictionary of them by name.           *)
(***************************************************************************)
\* Timer objects created in one run
MaxTimers == 3

\* Timer.__init__; `callback` tells whether a callback was given, `thread` is
\* where the thread of _run is, `called` counts the calls of the callback and
\* `cancelled` records that cancel() returned True
Timer(duration_seconds, callback, name) ==
    [duration_seconds |-> duration_seconds, callback |-> callback, name |-> name,
     is_running |-> FALSE, is_finished |-> FALSE, thread |-> "none", called |-> 0,
     cancelled |-> FALSE]

\* Timer.cancel: True (and the flag reset) for a running timer, else False
Timer_cancel(timer) ==
    IF ~timer.is_running THEN timer
    ELSE [timer EXCEPT !.is_running = FALSE, !.cancelled = TRUE]

timerRest ==
    <<ctlVars, dispVars, wakeVars, wake_activations, parse_call, ui, lock, shared,
      threads, perfVars>>

\* TimerManager.create_timer; <<"None">> stands for name=None.  Timer.start
\* (lines 32-48) finds the new timer not running, sets the flags and starts the
\* thread of _run, which sleeps
create_timer(duration_seconds, name, callback) ==
    /\ Len(timer_objects) < MaxTimers
    /\ LET key == IF name = <<"None">>     \* lines 120-121
                  THEN M.timer_prefix \o IntToText(Cardinality(DOMAIN timers) + 1)
                  ELSE name
           timer == [Timer(duration_seconds, callback, key) EXCEPT
                        !.is_running = TRUE, !.is_finished = FALSE, !.thread = "sleep"]
       IN  /\ timer_objects' = Append(timer_objects, timer)
           /\ timers' = [k \in DOMAIN timers \cup {key} |->
                            IF k = key THEN Len(timer_objects) + 1 ELSE timers[k]]
    /\ UNCHANGED timerRest

\* CommandDispatcher._handle_set_timer for "set a timer for <duration> <unit>":
\* the manager is called with the seconds and the name Timer_<duration>_<unit>
SetTimer(duration, unit) ==
    LET intent == [type |-> "SET_TIMER", confidence |-> 120, text |-> << >>,
                   entities |-> <<Entity("duration", duration), Entity("unit", unit)>>,
                   raw_text |-> << >>]
        out == handle_set_timer(intent, [provider |-> "true", weather |-> "nokey",
                                         python |-> "py311"])
    IN  /\ out.result.success
        /\ create_timer(out.calls[1].arg, out.result.timer_name, TRUE)

\* TimerManager.cancel_timer
cancel_timer(name) ==
    /\ IF name \notin DOMAIN timers
       THEN UNCHANGED timerVars
       ELSE LET i == timers[name]
                success == timer_objects[i].is_running
            IN  /\ timer_objects' = [timer_objects EXCEPT ![i] = Timer_cancel(@)]
                /\ timers' = IF success
                             THEN [k \in DOMAIN timers \ {name} |-> timers[k]]
                             ELSE timers
    /\ UNCHANGED timerRest

\* Timer.cancel(), called on the object that create_timer returned
Cancel(i) ==
    /\ timer_objects' = [timer_objects EXCEPT ![i] = Timer_cancel(@)]
    /\ UNCHANGED <<timers, timerRest>>

\* Timer._run in the thread of timer i, one statement at a time: the sleep is
\* over and is_running is reset (line 54); is_finished is set (line 55); the
\* callback, if one was given, is called and what it raises is caught (lines
\* 60-64)
Run(i) ==
    /\ timer_objects[i].thread \in {"sleep", "finish", "notify"}
    /\ timer_objects' =
           [timer_objects EXCEPT ![i] =
               IF @.thread = "sleep"
               THEN [@ EXCEPT !.is_running = FALSE, !.thread = "finish"]
               ELSE IF @.thread = "finish"
               THEN [@ EXCEPT !.is_finished = TRUE, !.thread = "notify"]
               ELSE [@ EXCEPT !.called = IF timer_objects[i].callback THEN @ + 1 ELSE @,
                              !.thread = "done"]]
    /\ UNCHANGED <<timers, timerRest>>

\* TimerManager.get_timer
get_timer(name) == IF name \in DOMAIN timers THEN timers[name] ELSE 0

\* TimerManager.list_timers: the timers of the dictionary that are running
list_timers == {i \in {timers[k] : k \in DOMAIN timers} : timer_objects[i].is_running}

NextTimers ==
    \/ \E callback \in BOOLEAN :
          create_timer(60, <<"None">>, callback)
    \/ \E duration \in {V.one, V.five}, unit \in {V.Minutes} :
          SetTimer(duration, unit)
    \/ \E i \in 1..Len(timer_objects) : cancel_timer(timer_objects[i].name)
    \/ \E i \in 1..Len(timer_objects) : Cancel(i)
    \/ \E i \in 1..Len(timer_objects) : Run(i)

SpecTimers == InitThreads /\ [][NextTimers]_vars


(***************************************************************************)
(* The performance monitor of src/performance.py: its lock, a              *)
(* threading.Lock, which a thread that holds it cannot take again, the     *)
(* deques of its metrics, and the threads that call its methods.           *)
(***************************************************************************)
\* max_history, the maxlen of each deque
MaxHistory == 2

MetricNames == {"response_time", "cpu_percent"}

perfRest ==
    <<ctlVars, dispVars, wakeVars, wake_activations, parse_call, ui, lock, shared,
      threads, timerVars>>

\* the method whose body thread t is in: get_metric_stats when
\* get_performance_report has called it (line 281)
Method(t) ==
    IF perf_threads[t].inner THEN "get_metric_stats" ELSE perf_threads[t].routine

\* thread t calls a method of the monitor and comes to its `with self.lock`
PerfCall(t, routine, name) ==
    /\ perf_threads[t].pc = "idle"
    /\ perf_threads' = [perf_threads EXCEPT ![t] =
                           [IdlePerf EXCEPT !.routine = routine, !.pc = "with",
                                            !.name = name]]
    /\ UNCHANGED <<monitor_lock, metrics, perfRest>>

\* `with self.lock`: Lock.acquire() returns when the lock is free, whoever
\* holds it
PerfAcquire(t) ==
    /\ perf_threads[t].pc = "with"
    /\ monitor_lock = 0
    /\ monitor_lock' = t
    /\ perf_threads' = [perf_threads EXCEPT ![t].pc = "body"]
    /\ UNCHANGED <<metrics, perfRest>>

\* record_metric, lines 128-129: the deque drops its oldest entry when full
RecordBody(t) ==
    /\ perf_threads[t].pc = "body"
    /\ Method(t) = "record_metric"
    /\ LET name == perf_threads[t].name
           len == IF name \in DOMAIN metrics THEN metrics[name] ELSE 0
       IN  metrics' = [k \in DOMAIN metrics \cup {name} |->
                          IF k = name THEN IF len < MaxHistory THEN len + 1 ELSE len
                          ELSE metrics[k]]
    /\ monitor_lock' = 0
    /\ perf_threads' = [perf_threads EXCEPT ![t] = IdlePerf]
    /\ UNCHANGED perfRest

\* clear_metrics, lines 292-303: everything is cleared, or each deque keeps its
\* recent entries, `kept[k]` of them
ClearBody(t, kept) ==
    /\ perf_threads[t].pc = "body"
    /\ Method(t) = "clear_metrics"
    /\ metrics' = IF perf_threads[t].name = "None" THEN [k \in {} |-> 0]
                  ELSE [k \in DOMAIN metrics |->
                           IF kept[k] < metrics[k] THEN kept[k] ELSE metrics[k]]
    /\ monitor_lock' = 0
    /\ perf_threads' = [perf_threads EXCEPT ![t] = IdlePerf]
    /\ UNCHANGED perfRest

\* get_metric_stats, lines 153-168: it returns and the `with` gives the lock
\* back; inside get_performance_report the loop of line 280 goes on
StatsBody(t) ==
    /\ perf_threads[t].pc = "body"
    /\ Method(t) = "get_metric_stats"
    /\ monitor_lock' = 0
    /\ perf_threads' =
           [perf_threads EXCEPT ![t] =
               IF perf_threads[t].inner
               THEN [@ EXCEPT !.inner = FALSE, !.pc = "loop", !.todo = @ \ {perf_threads[t].name}]
               ELSE IdlePerf]
    /\ UNCHANGED <<metrics, perfRest>>

\* get_performance_report, lines 270-277: the report is built, with
\* get_system_metrics(), which takes no lock
ReportBody(t) ==
    /\ perf_threads[t].pc = "body"
    /\ Method(t) = "get_performance_report"
    /\ perf_threads' = [perf_threads EXCEPT ![t].pc = "loop", ![t].todo = DOMAIN metrics]
    /\ UNCHANGED <<monitor_lock, metrics, perfRest>>

\* get_performance_report, lines 280-283: get_metric_stats(name) for the
\* next name, or the return, which gives the lock back
ReportLoop(t) ==
    /\ perf_threads[t].pc = "loop"
    /\ IF perf_threads[t].todo = {}
       THEN /\ monitor_lock' = 0
            /\ perf_threads' = [perf_threads EXCEPT ![t] = IdlePerf]
       ELSE /\ \E name \in perf_threads[t].todo :
                   perf_threads' = [perf_threads EXCEPT ![t].inner = TRUE, ![t].pc = "with",
                                                        ![t].name = name]
            /\ UNCHANGED monitor_lock
    /\ UNCHANGED <<metrics, perfRest>>

\* a step of thread t inside the method it runs
PerfStep(t) ==
    \/ PerfAcquire(t)
    \/ RecordBody(t)
    \/ \E kept \in [MetricNames -> 0..MaxHistory] : ClearBody(t, kept)
    \/ StatsBody(t)
    \/ ReportBody(t)
    \/ ReportLoop(t)

NextPerf ==
    \/ \E t \in PerfThreads, name \in MetricNames :
          \E routine \in {"record_metric", "get_metric_stats"} : PerfCall(t, routine, name)
    \/ \E t \in PerfThreads, older_than \in {"None", "given"} :
          PerfCall(t, "clear_metrics", older_than)
    \/ \E t \in PerfThreads : PerfCall(t, "get_performance_report", "none")
    \/ \E t \in PerfThreads : PerfStep(t)

\* every thread inside a method of the monitor goes on running: the scheduler
\* runs a thread that can run, and hands the lock to a thread that waits for it
SpecPerf ==
    /\ InitThreads
    /\ [][NextPerf]_vars
    /\ \A t \in PerfThreads : SF_vars(PerfStep(t))

(***************************************************************************)
(* Properties of the dispatcher, under SpecDispatch                        *)
(***************************************************************************)
Dispatched == d_pc = "done"

Has(intent, entity_type) == get_entity(intent, entity_type) # NoEntity

\* the word the message for an unknown command is to contain
M_understand == <<"u","n","d","e","r","s","t","a","n","d">>

\* C1: dispatch of an UNKNOWN intent returns success=false with a message that
\* contains "understand", and calls no ActionProvider method.
C1_UnknownNotUnderstood ==
    Dispatched /\ d_intent.type = "unknown" =>
        /\ ~d_out.result.success
        /\ Contains(M_understand, d_out.result.message)
        /\ d_out.calls = << >>

\* C2: for every intent kind, entity list and provider outcome, dispatch returns a
\* result with a boolean success and a message, no exception leaves dispatch, and a
\* provider call that raises gives success=false.
C2_DispatchNeverRaises ==
    Dispatched =>
        /\ ~d_out.escaped
        /\ d_out.result.success \in BOOLEAN
        /\ d_out.result.message # << >>
        /\ (d_out.calls # << >> /\ d_env.provider = "raise" => ~d_out.result.success)

C2_Witness ==
    /\ Dispatched
    /\ d_out.calls # << >>
    /\ d_env.provider = "raise"
    /\ d_intent.type = "open_app"
    /\ ~d_out.result.success

\* C3: an intent whose kind has a handler gets the result of that handler: a
\* VOLUME_UP, VOLUME_DOWN or TAKE_SCREENSHOT intent makes the one SystemController
\* call of its handler and success is what that call returned.
C3_SystemIntentReachesController ==
    Dispatched /\ d_intent.type \in {"volume_up", "volume_down", "take_screenshot"} =>
        /\ Len(d_out.calls) = 1
        /\ d_out.calls[1].target = "system_controller"
        /\ d_out.calls[1].method = d_intent.type
        /\ (d_env.provider # "raise" => d_out.result.success = (d_env.provider = "true"))

\* C4 as stated: an intent that lacks a declared entity of its kind (app_name for
\* OPEN_APP and CLOSE_APP, query for SEARCH, song_name for PLAY_MUSIC, duration and
\* unit for SET_TIMER) fails with a message and makes no ActionProvider call.
MissingDeclared(intent) ==
    \/ intent.type \in {"open_app", "close_app"} /\ ~Has(intent, "app_name")
    \/ intent.type = "search" /\ ~Has(intent, "query")
    \/ intent.type = "play_music" /\ ~Has(intent, "song_name")
    \/ intent.type = "set_timer" /\ (~Has(intent, "duration") \/ ~Has(intent, "unit"))

C4_MissingDeclaredEntityFails ==
    Dispatched /\ MissingDeclared(d_intent) =>
        /\ ~d_out.result.success
        /\ d_out.result.message # << >>
        /\ d_out.calls = << >>

\* C4, amended: the entities the handlers require are app_name (OPEN_APP, CLOSE_APP),
\* query (SEARCH), and duration and unit (SET_TIMER); an intent that lacks one fails
\* with a message and no ActionProvider call.  song_name is optional: PLAY_MUSIC
\* without it opens Spotify, one call, and succeeds or fails with that call.
MissingRequired(intent) ==
    \/ intent.type \in {"open_app", "close_app"} /\ ~Has(intent, "app_name")
    \/ intent.type = "search" /\ ~Has(intent, "query")
    \/ intent.type = "set_timer" /\ (~Has(intent, "duration") \/ ~Has(intent, "unit"))

C4_MissingRequiredEntityFails ==
    /\ Dispatched /\ MissingRequired(d_intent) =>
          /\ ~d_out.result.success
          /\ d_out.result.message # << >>
          /\ d_out.calls = << >>
    /\ Dispatched /\ d_intent.type = "play_music" /\ ~Has(d_intent, "song_name") =>
          /\ d_out.calls = <<Call("app_controller", "open_app", M.spotify)>>
          /\ d_out.result.success = (d_env.provider = "true")

C4_Witness ==
    /\ Dispatched
    /\ d_intent.type = "open_app"
    /\ ~Has(d_intent, "app_name")
    /\ d_intent.entities # << >>
    /\ d_out.result.message = M.no_app_name

TimerReady(intent) ==
    /\ Has(intent, "duration") /\ Has(intent, "unit")
    /\ IsIntText(get_entity(intent, "duration").value)
    /\ LET unit == lower(get_entity(intent, "unit").value)
       IN  Contains(M.minute, unit) \/ Contains(M.second, unit) \/ Contains(M.hour, unit)

OneCallDue(intent, env) ==
    \/ intent.type \in {"open_app", "close_app"} /\ Has(intent, "app_name")
    \/ intent.type = "search" /\ Has(intent, "query")
    \/ intent.type = "play_music"
    \/ intent.type = "set_timer" /\ TimerReady(intent)
    \/ intent.type = "get_weather" /\ env.weather = "nokey"

NoCallDue(intent, env) ==
    \/ intent.type \in {"get_time", "shutdown"}
    \/ intent.type = "get_weather" /\ env.weather # "nokey"

InText(rec) ==
    rec.pc \in {"t_enter", "t_record", "t_parse", "t_dispatch", "t_report",
                "t_chat_gate", "t_chat_begin", "t_chat_wait", "t_chat_disable"}

Count(log, notice) == Cardinality({i \in 1..Len(log) : log[i] = notice})

FailureNotices(log) ==
    Cardinality({i \in 1..Len(log) :
        log[i] \in {"stt_network", "stt_timeout", "stt_device", "stt_not_understood",
                    "voice_error"}})

\* C6: a voice session never calls listen_once more than stt_retry_on_failure + 1
\* times; when the N-th call is the first to succeed the session has made exactly N
\* calls, makes no further one, and goes on to _process_text with the recognised text.
C6_ListenRetryBound ==
    \A w \in Slots :
        LET rec == workers[w]
        IN  /\ rec.listens <= stt_retry_on_failure + 1
            /\ rec.heard =>
                  /\ rec.listens = rec.attempts + 1
                  /\ rec.text \in Heard
                  /\ InText(rec) \/ rec.pc = "done"
            /\ rec.kind = "voice" /\ InText(rec) => rec.heard

C6_Witness ==
    \E w \in Slots :
        /\ workers[w].heard
        /\ workers[w].attempts = stt_retry_on_failure
        /\ workers[w].listens = stt_retry_on_failure + 1
        /\ workers[w].pc = "t_parse"

\* C7: a voice session whose stt_retry_on_failure + 1 attempts all failed appends
\* nothing to the history, calls neither parse nor dispatch nor chat, and emits one
\* failure notice besides the retry notices between the attempts.
AllAttemptsFailed(rec) ==
    /\ rec.kind = "voice"
    /\ ~rec.heard
    /\ rec.attempts = stt_retry_on_failure + 1

C7_FailedVoiceSessionIsInert ==
    \A w \in Slots :
        LET rec == workers[w]
        IN  AllAttemptsFailed(rec) =>
                /\ rec.pc = "done"
                /\ rec.listens = stt_retry_on_failure + 1
                /\ rec.appends = 0 /\ rec.parses = 0
                /\ rec.dispatches = 0 /\ rec.chats = 0
                /\ FailureNotices(rec.log) = 1
                /\ Count(rec.log, "retry") = stt_retry_on_failure
                /\ Len(rec.log) = stt_retry_on_failure + 2

C7_Witness ==
    \E w \in Slots :
        /\ AllAttemptsFailed(workers[w])
        /\ workers[w].pc = "done"
        /\ workers[w].log = <<"listening", "retry", "stt_timeout">>

\* C8: for an utterance, dispatch is called exactly when the parsed intent is not
\* UNKNOWN and has confidence >= 0.5 (60/120); chat is called only when dispatch was
\* not, so never both, and not after a dispatch that returned success=false.
Decided(rec) ==
    rec.pc \in {"t_report", "t_chat_gate", "t_chat_begin", "t_chat_wait",
                "t_chat_disable", "done"}

C8_DispatchXorChat ==
    \A w \in Slots :
        LET rec == workers[w]
            command == /\ rec.intent.type \notin {"None", "unknown"}
                       /\ rec.intent.confidence >= 60
        IN  /\ rec.dispatches + rec.chats <= 1
            /\ rec.dispatches = 1 => command
            /\ rec.parses = 1 /\ Decided(rec) /\ command => rec.dispatches = 1
            /\ rec.chats = 1 => ~command

C8_Witness ==
    \E w \in Slots :
        /\ workers[w].pc = "done"
        /\ workers[w].dispatches = 1
        /\ ~workers[w].res.success
        /\ workers[w].chats = 0
        /\ workers[w].intent.confidence = 74

\* C9: once a chat call has failed with a connection-refused-class error, no chat
\* call is started any more.
C9_NoChatAfterRefusal == [][connFailed => chatStarted' = chatStarted]_vars

\* C10: the notice that the local LLM is not reachable is emitted at most once.
C10_OneUnreachableNotice == unreachableNotices <= 1


\* C11: an utterance processed while the controller runs is never passed over in
\* silence: when no command handled it (the intent is UNKNOWN or below 0.5) and
\* the chat gave no reply (no client, circuit broken, or an empty reply), an error
\* notice is surfaced.
Processed(rec) == rec.pc = "done" /\ rec.appends >= 1

Answered(rec) == \E i \in 1..Len(rec.log) : rec.log[i] = "spark"

ErrorNoticed(rec) ==
    \E i \in 1..Len(rec.log) : rec.log[i] \in {"llm_error", "llm_unreachable"}

C11_NoSilentFailure ==
    \A w \in Slots :
        Processed(workers[w]) /\ ~Answered(workers[w]) => ErrorNoticed(workers[w])

\* C12: after any sequence of text and voice commands the conversation history
\* holds at most 8 turns.
C12_HistoryAtMostEight == Len(history) <= 8

\* one served command leaves the controller with the history of PastHistory(1)
OneExchangeServed ==
    /\ history = PastHistory(1)
    /\ \A w \in Slots : workers[w].pc = "idle"

\* C13: whatever start() and stop() calls are made on one monitor, at most one
\* detection loop thread is executing at any time.
C13_AtMostOneLoop ==
    Cardinality({l \in LoopIds : loops[l].pc \notin {"unborn", "exited"}}) <= 1

\* the thread of an earlier start() is at its `while self.is_running` test,
\* and is_running is True again because of a later start()
EarlierLoopGoesOn ==
    /\ is_running
    /\ detection_thread = 2
    /\ loops[1].pc = "test"
    /\ loops[2].pc \notin {"unborn", "exited"}

\* C14: once stop() has returned, and until start() is called again, get_status
\* reports is_running = False and the state IDLE.
C14_IdleAfterStop ==
    stopped => ~get_status.is_running /\ get_status.state = "idle"

\* C15: every change of the monitor's state is an edge of the graph
\* IDLE->LISTENING, LISTENING->PROCESSING, PROCESSING->DETECTED,
\* PROCESSING->LISTENING, DETECTED->LISTENING, an active state->ERROR,
\* ERROR->LISTENING, any state->IDLE.
ActiveStates == {"listening", "processing", "detected"}

StateGraph ==
    {<<"idle", "listening">>, <<"listening", "processing">>,
     <<"processing", "detected">>, <<"processing", "listening">>,
     <<"detected", "listening">>, <<"error", "listening">>}
    \cup {<<s, "error">> : s \in ActiveStates}
    \cup {<<s, "idle">> : s \in ActiveStates \cup {"error"}}

C15_StateGraph == [][state' # state => <<state, state'>> \in StateGraph]_vars

\* C16: an exception raised in an iteration of the loop (by the audio capture,
\* by the transcription or by a listener) sets the state ERROR in that
\* iteration.
C16_ExceptionSetsError ==
    \A l \in LoopIds : loops[l].raised # "none" => loops[l].error_set

\* C17: when SoundDeviceWakeWord has finished with a chunk whose text contains,
\* case-insensitively, a configured wake word, it has notified exactly one
\* event, with the first such wake word in configuration order, and it writes
\* the state LISTENING; for a chunk without one it has notified no event.
Triggers(text) ==
    {i \in 1..Len(wake_words) : Contains(lower(wake_words[i]), lower(text))}

ChunkDone(l) ==
    /\ wake_variant = "sounddevice"
    /\ loops[l].pc = "resume"
    /\ loops'[l].pc = "test"

C17_Outcome(rec) ==
    IF rec.heard.kind = "text" /\ Triggers(rec.heard.text) # {}
    THEN /\ rec.events = 1
         /\ rec.wake_word = wake_words[Least(Triggers(rec.heard.text))]
    ELSE rec.events = 0

C17_OneEventPerTrigger ==
    [][\A l \in LoopIds :
          ChunkDone(l) => state' = "listening" /\ C17_Outcome(loops'[l])]_vars

\* a chunk that holds two wake words has been answered with one event, for
\* the one that is configured first
C17_Witness ==
    \E l \in LoopIds :
        /\ wake_variant = "sounddevice"
        /\ loops[l].pc = "test"
        /\ loops[l].heard.text = CH.wake_up_computer
        /\ loops[l].events = 1
        /\ loops[l].wake_word = WW.computer
        /\ state = "listening"

\* C18: when a notification whose listener list was left alone has ended, every
\* registered listener has been called once, in registration order, and no
\* exception of a listener has left _notify_listeners.
Notified(rec) == rec.pc = "resume" /\ rec.events = 1

C18_AllListenersCalled ==
    \A l \in LoopIds :
        Notified(loops[l]) /\ ~loops[l].mutated =>
            loops[l].called = loops[l].snapshot /\ ~loops[l].escaped

\* C19: when a notification during which listeners were added or removed has
\* ended, every listener that was registered when it began has been called
\* exactly once.
Calls(rec, cb) == Cardinality({i \in 1..Len(rec.called) : rec.called[i] = cb})

C19_SnapshotNotified ==
    \A l \in LoopIds :
        Notified(loops[l]) /\ loops[l].mutated /\ ~loops[l].escaped =>
            \A i \in 1..Len(loops[l].snapshot) :
                Calls(loops[l], loops[l].snapshot[i]) = 1

\* C20: an activation received while the controller runs schedules exactly one
\* new worker thread for a voice session and changes no other worker, and
\* nothing of a command (listen_once, parse, dispatch, chat) is ever executed
\* on the monitor's loop thread.
Scheduled(w) ==
    /\ workers[w].pc = "idle"
    /\ workers'[w].pc = "v_enter"
    /\ workers'[w].kind = "voice"
    /\ workers'[w].thread = "worker"
    /\ \A v \in Slots \ {w} : workers'[v] = workers[v]

OffMonitor(rec) ==
    rec.thread = "monitor" =>
        rec.listens = 0 /\ rec.parses = 0 /\ rec.dispatches = 0 /\ rec.chats = 0

C20_ActivationSchedulesWorker ==
    /\ [][wake_activations' # wake_activations =>
             /\ wake_activations' = wake_activations + 1
             /\ commands' = commands + 1
             /\ \E w \in Slots : Scheduled(w)]_vars
    /\ [](\A w \in Slots : OffMonitor(workers[w]))

\* the session that an activation scheduled has listened and parsed, on its
\* worker thread, while a second activation was received
C20_Witness ==
    /\ wake_activations = 2
    /\ \E w \in Slots :
           /\ workers[w].kind = "voice"
           /\ workers[w].thread = "worker"
           /\ workers[w].listens >= 1
           /\ workers[w].parses >= 1

\* C24: for a text that is not blank, parse returns the kind, the confidence and
\* the entities of the first row of the table, in declaration order, whose
\* (keyword score + pattern score) / 2 is the greatest, the pattern score being
\* 0.9 when the row's pattern matches and 0 otherwise; it returns UNKNOWN with
\* confidence 0 only when no row scores above 0.
entryConfidence(text, i) ==
    (check_keywords(text, patterns[i].keywords)
       + (IF PatternMatch(patterns[i].name, text).matched THEN 108 ELSE 0)) \div 2

FirstGreatest(text) ==
    CHOOSE i \in 1..Len(patterns) :
        \A j \in 1..Len(patterns) :
            /\ entryConfidence(text, j) <= entryConfidence(text, i)
            /\ j < i => entryConfidence(text, j) < entryConfidence(text, i)

C24_Selected(out, text, i) ==
    IF entryConfidence(text, i) > 0
    THEN /\ out.type = patterns[i].name
         /\ out.confidence = entryConfidence(text, i)
         /\ out.entities = extract_entities(text, patterns[i].name,
                                            patterns[i].entity_types).entities
    ELSE out.type = "unknown" /\ out.confidence = 0

ParseReturned == parse_call.pc = "returned"

NonBlank == strip(parse_call.text) # << >>

C24_FirstGreatestEntry ==
    ParseReturned /\ NonBlank =>
        C24_Selected(parse_call.out, strip(lower(parse_call.text)),
                     FirstGreatest(strip(lower(parse_call.text))))

\* the same for the texts in which the greatest row has a keyword of its own
C24_WhenKeywordMatches ==
    ParseReturned /\ NonBlank
      /\ check_keywords(strip(lower(parse_call.text)),
                        patterns[FirstGreatest(strip(lower(parse_call.text)))].keywords) # 0 =>
        C24_Selected(parse_call.out, strip(lower(parse_call.text)),
                     FirstGreatest(strip(lower(parse_call.text))))

\* C25: an Intent returned by parse holds only entities whose type is a role
\* declared by the row of its kind, at most one per role and in the declared
\* order; an UNKNOWN intent holds none.
RowOf(type) == CHOOSE i \in 1..Len(patterns) : patterns[i].name = type

\* the entity types are those of a subsequence of the declared roles
InDeclaredOrder(entities, entity_types) ==
    \E pos \in [1..Len(entities) -> 1..Len(entity_types)] :
        /\ \A i \in 1..Len(entities) : entities[i].type = entity_types[pos[i]]
        /\ \A i, j \in 1..Len(entities) : i < j => pos[i] < pos[j]

C25_DeclaredEntities ==
    ParseReturned =>
        IF parse_call.out.type = "unknown"
        THEN parse_call.out.entities = << >>
        ELSE InDeclaredOrder(parse_call.out.entities,
                             patterns[RowOf(parse_call.out.type)].entity_types)

\* a timer has been parsed into its two roles
C25_Witness ==
    /\ ParseReturned
    /\ parse_call.text = PW.set_timer
    /\ parse_call.out.type = "set_timer"
    /\ Len(parse_call.out.entities) = 2
    /\ parse_call.out.entities[1].type = "duration"
    /\ parse_call.out.entities[2].type = "unit"

\* C26: parse("open chrome") returns OPEN_APP with the one entity app_name =
\* chrome and a confidence of at least 0.5; and a text made of open, launch or
\* start, a space and a rest, in which no keyword of another row occurs, yields
\* OPEN_APP with the single entity app_name and a confidence of at least 0.5,
\* the value being the rest in lower case, without the white space around it
\* and cut at its first line break.
OpenVerbs == {PW.open, PW.launch, PW.start}

\* the text is verb, space, rest; and only the first row has a keyword in it
OpenForm(text, verb) ==
    /\ MatchAt(verb \o <<" ">>, text, 1)
    /\ strip(SubSeq(text, Len(verb) + 2, Len(text))) # << >>
    /\ \A i \in 2..Len(patterns) :
           check_keywords(strip(lower(text)), patterns[i].keywords) = 0

RestOf(text, verb) == SubSeq(text, Len(verb) + 2, Len(text))

FirstLine(s) ==
    IF \A i \in 1..Len(s) : s[i] # "\n" THEN s
    ELSE SubSeq(s, 1, Least({i \in 1..Len(s) : s[i] = "\n"}) - 1)

OpensApp(out, value) ==
    /\ out.type = "open_app"
    /\ out.entities = <<Entity("app_name", value)>>
    /\ out.confidence >= 60

C26_OpenChrome ==
    ParseReturned /\ parse_call.text = PW.open \o <<" ">> \o PW.chrome =>
        OpensApp(parse_call.out, PW.chrome)

C26_OpenAppLowered ==
    /\ C26_OpenChrome
    /\ \A verb \in OpenVerbs :
           ParseReturned /\ OpenForm(parse_call.text, verb) =>
               OpensApp(parse_call.out,
                        strip(FirstLine(SubSeq(lower(RestOf(parse_call.text, verb)),
                                               SkipSpaces(RestOf(parse_call.text, verb), 1),
                                               Len(RestOf(parse_call.text, verb))))))

\* the claim as stated: the value is the rest as it was typed
C26_OpenAppVerbatim ==
    /\ C26_OpenChrome
    /\ \A verb \in OpenVerbs :
           ParseReturned /\ OpenForm(parse_call.text, verb) =>
               OpensApp(parse_call.out, RestOf(parse_call.text, verb))

\* "launch Chrome" has been parsed: app_name is chrome
C26_Witness ==
    /\ ParseReturned
    /\ parse_call.text = PW.launch \o <<" ">> \o PW.Chrome
    /\ OpenForm(parse_call.text, PW.launch)
    /\ OpensApp(parse_call.out, PW.chrome)

\* C27: parse of an empty text or of white space only returns UNKNOWN with
\* confidence 0 and no entities, and evaluates no row of the table.
C27_BlankShortCircuit ==
    ParseReturned /\ ~NonBlank =>
        /\ parse_call.out.type = "unknown"
        /\ parse_call.out.confidence = 0
        /\ parse_call.out.entities = << >>
        /\ parse_call.scanned = 0

\* a text of spaces and a tab has been answered
C27_Witness ==
    /\ ParseReturned
    /\ parse_call.text = <<" ", "\t", " ">>
    /\ parse_call.out.type = "unknown"
    /\ parse_call.scanned = 0

\* C29: whatever add_listener and remove_listener calls were made, the listener
\* list holds no callback twice, it holds exactly the callbacks that were added
\* and not removed since, and listeners_count of get_status is their number; so
\* adding a registered callback and removing an unregistered one change nothing.
NoDuplicates(list) ==
    \A i, j \in 1..Len(list) : list[i] = list[j] => i = j

C29_ListenersAreASet ==
    /\ NoDuplicates(listeners)
    /\ {listeners[i] : i \in 1..Len(listeners)} = added
    /\ get_status.listeners_count = Cardinality(added)

\* two callbacks are registered on a WakeWordDetector, one of them a callable
\* without a __name__
C29_Witness ==
    /\ wake_variant = "listener"
    /\ listeners = <<"on_event", "handler_obj">>
    /\ added = {"on_event", "handler_obj"}
    /\ get_status.listeners_count = 2

\* C30: no event is handed to the listeners with a confidence below the
\* confidence_threshold the monitor was constructed with.
Delivering(rec) == rec.pc = "notify" \/ (rec.pc = "resume" /\ rec.events = 1)

C30_NoEventBelowThreshold ==
    \A l \in LoopIds :
        Delivering(loops[l]) => loops[l].confidence >= threshold

\* the same for WakeWordDetector alone, which tests the threshold
C30_ListenerVariant ==
    \A l \in LoopIds :
        wake_variant = "listener" /\ Delivering(loops[l]) =>
            loops[l].confidence >= threshold

\* C28: the notices of one command thread leave the queue in the order in
\* which that thread put them there, each once, and it is the UI thread alone
\* that takes them off and shows them; the notices of two threads may mix.
\* At any time the notices of a thread already shown, followed by those still
\* queued, are its first, second, ... up to the last one it sent.
NoticesOf(seq, w) ==
    LET idx == {i \in 1..Len(seq) : seq[i].from = w}
        nth(k) == CHOOSE i \in idx : Cardinality({j \in idx : j <= i}) = k
    IN  [k \in 1..Cardinality(idx) |-> seq[nth(k)].n]

ShownNotices == [i \in 1..Len(ui.shown) |-> ui.shown[i].notice]

C28_PerWorkerOrder ==
    /\ \A w \in Slots :
           NoticesOf(ShownNotices \o ui.queue, w) = [k \in 1..ui.sent[w] |-> k]
    /\ \A i \in 1..Len(ui.shown) : ui.shown[i].thread = "ui"

\* the notices of two threads have been shown mixed, each thread's in order
C28_Witness ==
    /\ Len(ui.shown) = 4
    /\ ui.shown[1].notice.from = 1 /\ ui.shown[1].notice.n = 1
    /\ ui.shown[2].notice.from = 2 /\ ui.shown[2].notice.n = 1
    /\ ui.shown[3].notice.from = 1 /\ ui.shown[3].notice.n = 2
    /\ ui.shown[4].notice.from = 2 /\ ui.shown[4].notice.n = 2

\* C21: no call that blocks on audio or on the network (the transcriber's
\* adjust_for_ambient_noise and listen_once, the chat client, the action
\* providers behind dispatch) is made by the thread that calls start(),
\* run_text_command() or run_voice_command(); they are all made by command
\* threads.
StepOf(t) == threads[t].pc # 0 /\ threads'[t] # threads[t]

Blocking(op) == op.k = "call" /\ op.c \in {"audio", "network", "provider"}

C21_BlockingCallsOnWorkers ==
    [][\A t \in ThreadIds :
          StepOf(t) /\ Blocking(Cur(t)) => Role(t) = "worker"]_vars

\* the same for run_text_command, run_voice_command and stop alone
C21_SubmitNeverBlocks ==
    [][\A t \in ThreadIds :
          StepOf(t) /\ Blocking(Cur(t)) /\ threads[t].routine # "start" =>
              Role(t) = "worker"]_vars

\* C22: every read and every write of the run flag, of the wake-word-enabled
\* flag and of the history is made by a thread that holds the lock, and no
\* thread holds the lock while it calls the transcriber, the chat client or an
\* action provider.
Guarded(op) ==
    /\ op.k \in {"test", "write", "writeany", "touch"}
    /\ op.x \in {"_running", "_wake_enabled", "_history"}

C22_SharedStateUnderLock ==
    [][\A t \in ThreadIds :
          StepOf(t) => /\ Guarded(Cur(t)) => lock = t
                       /\ Blocking(Cur(t)) => lock # t]_vars

\* what does hold: the run flag is only touched under the lock, and no
\* collaborator is called under it
C22_RunFlagUnderLock ==
    [][\A t \in ThreadIds :
          StepOf(t) => /\ Guarded(Cur(t)) /\ Cur(t).x = "_running" => lock = t
                       /\ Cur(t).k = "call" => lock # t]_vars

\* C23: start() and stop() raise nothing.  start() on a running controller
\* returns True and has called no collaborator and made no callback; otherwise
\* it returns True with the run flag set, or False with the run flag reset.
\* stop() on a controller that is not running has changed no field, called
\* nothing and made no callback.
Finished(routine) == threads[1].pc = 0 /\ threads[1].routine = routine

C23_WitnessAgain ==
    /\ Finished("start") /\ threads[1].entry._running /\ threads[1].ret = "True"

\* C38: no dispatch calls SystemController.shutdown() or restart(); the dispatch
\* of a SHUTDOWN intent returns success = false and calls no ActionProvider.
C38_ShutdownNeverPerformed ==
    d_pc = "done" =>
        /\ \A i \in 1..Len(d_out.calls) :
               d_out.calls[i].method \notin {"shutdown", "restart"}
        /\ d_intent.type = "shutdown" =>
               /\ ~d_out.escaped
               /\ ~d_out.result.success
               /\ d_out.calls = << >>

\* a SHUTDOWN intent has been dispatched
C38_Witness ==
    /\ d_pc = "done"
    /\ d_intent.type = "shutdown"
    /\ ~d_out.result.success
    /\ d_out.calls = << >>

\* C39: the scoring of parse can rank a keyword-only match above a pattern match:
\* for the text "music volume  up" parse selects a row whose pattern does not
\* match, although the pattern of another row matches the text.
KeywordOnlySelected(out, text) ==
    \E i, j \in 1..Len(patterns) :
        /\ out.type = patterns[i].name
        /\ ~PatternMatch(patterns[i].name, text).matched
        /\ j # i
        /\ PatternMatch(patterns[j].name, text).matched

C39_KeywordOnlyOutranksPattern ==
    ParseReturned /\ parse_call.text = PW.music_volume_up =>
        KeywordOnlySelected(parse_call.out, strip(lower(parse_call.text)))

\* parse has returned PLAY_MUSIC at 0.25 for it: one keyword of two, no pattern
C39_Witness ==
    /\ ParseReturned
    /\ parse_call.text = PW.music_volume_up
    /\ parse_call.out.type = "play_music"
    /\ parse_call.out.confidence = 30
    /\ PatternMatch("volume_up", strip(lower(parse_call.text))).matched

\* stop() has found the controller running, has stopped it and has returned,
\* and the window has called nothing since
StopReturned == Finished("stop") /\ threads[1].entry._running

\* the calls that begin a pipeline step: an ActionProvider call (through
\* dispatch), a Chat call, a Speaker call
PipelineCall(op) ==
    op.k = "call" /\ (op.c \in {"provider", "network"} \/ op.x = "tts.speak")

\* C31: once stop() has returned, no command thread begins an ActionProvider
\* call, a Chat call or a Speaker call.
C31_StopCancelsSteps ==
    [][\A t \in ThreadIds :
          StopReturned /\ StepOf(t) /\ Role(t) = "worker" => ~PipelineCall(Cur(t))]_vars

\* C32: after set_wake_word_enabled(False) has returned, and until the window
\* calls the controller again, no call of _on_wake_word starts a voice session.
C32_NoSessionWhileDisabled ==
    [][\A t \in ThreadIds :
          /\ Finished("set_wake_word_enabled_off")
          /\ StepOf(t)
          /\ threads[t].routine = "on_wake_word"
          => Cur(t).k # "spawn"]_vars

\* C33: between the calls of the window (the last of which returned), when the
\* controller records the wake word as started the monitor is running.
C33_StartedMeansRunning ==
    threads[1].pc = 0 /\ threads[1].ret # "raised" /\ shared._wake_started
        => is_running

\* stop() has emitted the status "Stopped" (line 115) and the window has not
\* called the controller since
SaidStopped ==
    /\ threads[1].routine = "stop"
    /\ \/ threads[1].pc # 0 /\ Cur(1).line = 116
       \/ threads[1].pc = 0 /\ threads[1].entry._running /\ ~threads[1].calls

\* the statuses "Processing..." (line 139), "Listening..." (227) and "Ready"
\* (191, 258) of the command threads
WorkerStatus(op) ==
    op.k = "emit" /\ op.x = "status" /\ op.line \in {139, 191, 227, 258}

\* C34: after stop() has emitted "Stopped", no command thread emits "Ready",
\* "Processing..." or "Listening..." until start() is called again.
C34_StoppedIsLastStatus ==
    [][\A t \in ThreadIds :
          SaidStopped /\ StepOf(t) /\ Role(t) = "worker" => ~WorkerStatus(Cur(t))]_vars

\* thread t returns True from start()
ReturnsTrue(t) ==
    /\ StepOf(t)
    /\ threads[t].routine = "start"
    /\ Cur(t).k = "ret"
    /\ Cur(t).x = "True"

\* C35: whenever a call of start() returns True, the dispatcher, the parser
\* and the transcriber have been created and the controller is running.
C35_TrueMeansStarted ==
    [][\A t \in ThreadIds :
          ReturnsTrue(t) => dispatcher /\ parser /\ stt /\ shared._running]_vars

\* C36: once cancel() (or cancel_timer) has returned True for a running timer,
\* its callback is never called and its is_finished never becomes true
C36_CancelledNeverFinishes ==
    \A i \in 1..Len(timer_objects) :
        timer_objects[i].cancelled =>
            ~timer_objects[i].is_finished /\ timer_objects[i].called = 0

\* C37: every timer made by create_timer that is still running is found under
\* its name by get_timer and is listed by list_timers
C37_RunningTimersListed ==
    \A i \in 1..Len(timer_objects) :
        timer_objects[i].is_running =>
            get_timer(timer_objects[i].name) = i /\ i \in list_timers

\* C40: a call of get_performance_report() returns, whatever metrics are
\* recorded
C40_ReportReturns ==
    \A t \in PerfThreads :
        (perf_threads[t].routine = "get_performance_report")
            ~> (perf_threads[t].routine = "none")
=============================================================================
